---- MODULE Spec2Model ----
(***************************************************************************)
(* Model of the DRM atomic state-transaction engine (drm_atomic.c):        *)
(* the transaction container, get-or-create of per-object snapshots under  *)
(* the w/w acquire context, plane/connector linking, the core checks,      *)
(* check-only / commit / nonblocking commit, explicit out-fence setup and  *)
(* the atomic ioctl with its clear-and-retry loop.                         *)
(***************************************************************************)
EXTENDS Integers, Sequences, FiniteSets, TLC

(* ---------------------------------------------------------------------- *)
(* Error codes (returned negated, as in the kernel).                       *)
(* ---------------------------------------------------------------------- *)
ENOENT == 2
ENOMEM == 12
EFAULT == 14
EINVAL == 22
EMFILE == 24
ENOSPC == 28
ERANGE == 34
EDEADLK == 35
INT_MAX == 2147483647

(* ---------------------------------------------------------------------- *)
(* Bounds of the model.                                                    *)
(* ---------------------------------------------------------------------- *)
\* number of object groups in one request (arg->count_objs)
MaxObjs == 2
\* number of properties in one object group (count_props)
MaxProps == 1
\* number of times the lock primitive may signal Deadlock during one ioctl
MaxDeadlocks == 1
\* calls of drm_atomic_check_only on one transaction
MaxChecks == 3

\* the device's mode objects; index 0 stands for a NULL pointer
Crtcs == {1, 2}
Planes == {1, 2}
Connectors == {1}
Fbs == {1, 2}
\* the mode blobs of the device (drm_property_blob ids)
Blobs == {1, 2, 3}
\* "the n-th fallible primitive call of this step fails"; 0 = none fails
FailPoints == 0 .. 12

\* the flag words the requests of the model carry
FlagSets ==
    (SUBSET {"TEST_ONLY", "NONBLOCK", "PAGE_FLIP_EVENT"})
        \cup {{"ALLOW_MODESET"}}

VARIABLES
    pc,       \* position of the ioctl: idle, assemble, prepare, commit, out, done
    arg,      \* struct drm_mode_atomic: the flags of the request
    req,      \* the object/property/value list, as far as it has been read
    local,    \* the ioctl's locals: i, plane_mask, fence_state, ret
    state,    \* struct drm_atomic_state (the transaction)
    dev,      \* the device: current object states and legacy plane pointers
    ctx,      \* struct drm_modeset_acquire_ctx: locks held, contended lock
    user,     \* user memory behind the out-fence pointers and the fd table
    log       \* history: hook calls, snapshots, events, counters

vars == <<pc, arg, req, local, state, dev, ctx, user, log>>

(* ---------------------------------------------------------------------- *)
(* Values.                                                                 *)
(* ---------------------------------------------------------------------- *)
\* a snapshot with id 0 is the NULL pointer
NoCrtcState ==
    [id |-> 0, enable |-> FALSE, active |-> FALSE, mode_blob |-> 0,
     mode |-> 0, mode_changed |-> FALSE, plane_mask |-> {}, connector_mask |-> {},
     event |-> 0,
     degamma_lut |-> 0, ctm |-> 0, gamma_lut |-> 0,
     color_mgmt_changed |-> FALSE]

NoPlaneState ==
    [id |-> 0, crtc |-> 0, fb |-> 0, fence |-> 0,
     crtc_x |-> 0, crtc_y |-> 0, crtc_w |-> 0, crtc_h |-> 0,
     src_x |-> 0, src_y |-> 0, src_w |-> 0, src_h |-> 0,
     rotation |-> 0, zpos |-> 0]

NoConnectorState == [id |-> 0, crtc |-> 0]

\* state->crtcs[i].commit: absent, or a commit record that owns an event
NoCommit == [present |-> FALSE, event |-> 0]

\* one element of state->crtcs[], state->planes[], state->connectors[]
EmptyCrtcEntry ==
    [ptr |-> 0, state |-> NoCrtcState, commit |-> NoCommit, out_fence_ptr |-> 0]

EmptyPlaneEntry == [ptr |-> 0, state |-> NoPlaneState]

EmptyConnectorEntry == [ptr |-> 0, state |-> NoConnectorState]

\* framebuffers known to the device: pixel dimensions and format support
\* fb 2 is as wide as the 16 bits above the fixed-point fraction can tell
FbInfo(fb) ==
    [width |-> IF fb = 2 THEN 65536 ELSE 200, height |-> 200,
     format_ok |-> TRUE]

\* blobs known to the device: whether the blob holds a mode that
\* drm_mode_convert_umode accepts (length and contents), and what record its
\* length is the size of, and which display mode it converts to (0: none);
\* blob 3 holds one colour matrix
BlobInfo(b) ==
    [mode_ok |-> b # 3, length |-> IF b = 3 THEN "ctm" ELSE "mode",
     mode |-> IF b = 3 THEN 0 ELSE b]

\* identity of a snapshot in the history
SnapKey(kind, obj, id) == <<kind, obj, id>>

\* the whole program state as one record, with the failure oracle of a step
World(n) ==
    [pc |-> pc, arg |-> arg, req |-> req, local |-> local, state |-> state,
     dev |-> dev, ctx |-> ctx, user |-> user, log |-> log, fail |-> n]

Becomes(w) ==
    /\ pc' = w.pc
    /\ arg' = w.arg
    /\ req' = w.req
    /\ local' = w.local
    /\ state' = w.state
    /\ dev' = w.dev
    /\ ctx' = w.ctx
    /\ user' = w.user
    /\ log' = w.log

Dec(n) == IF n > 0 THEN n - 1 ELSE 0

(* ---------------------------------------------------------------------- *)
(* External primitives: the w/w lock and the allocator.                    *)
(* ---------------------------------------------------------------------- *)
CrtcLock(c) == <<"crtc", c>>
PlaneLock(p) == <<"plane", p>>
ConnectionLock == <<"connection", 0>>

\* drm_modeset_lock: a lock the context already holds is granted again;
\* otherwise the lock is taken, or Deadlock is signalled and the lock is
\* remembered as the contended one
drm_modeset_lock(w, l) ==
    IF l \in w.ctx.held
    THEN [w |-> w, ret |-> 0]
    ELSE IF w.fail = 1 /\ w.log.ndeadlock < MaxDeadlocks
         THEN [w |-> [w EXCEPT !.fail = 0,
                               !.ctx.contended = l,
                               !.log.ndeadlock = @ + 1],
               ret |-> -EDEADLK]
         ELSE [w |-> [w EXCEPT !.fail = Dec(@),
                               !.ctx.held = @ \cup {l}],
               ret |-> 0]

\* drm_modeset_backoff: drop every lock, then wait for the contended one
drm_modeset_backoff(w) ==
    [w EXCEPT !.ctx.held = IF w.ctx.contended = <<>> THEN {}
                           ELSE {w.ctx.contended},
              !.ctx.contended = <<>>,
              !.log.nbackoff = @ + 1]

drm_modeset_drop_locks(w) ==
    [w EXCEPT !.ctx.held = {}, !.ctx.contended = <<>>,
              !.log.ndrop = @ + 1]

\* kzalloc / krealloc / any allocation that may fail
Alloc(w) ==
    IF w.fail = 1
    THEN [w |-> [w EXCEPT !.fail = 0], ok |-> FALSE]
    ELSE [w |-> [w EXCEPT !.fail = Dec(@)], ok |-> TRUE]


(* ---------------------------------------------------------------------- *)
(* History bookkeeping.                                                    *)
(* ---------------------------------------------------------------------- *)
ObjKeys ==
    ({"crtc"} \X Crtcs) \cup ({"plane"} \X Planes)
        \cup ({"connector"} \X Connectors)

\* a get-or-create call returned snapshot id of object k
LogGot(w, k, id) ==
    [w EXCEPT !.log.got[k] = @ \cup {id}, !.log.ngot[k] = @ + 1]

\* kfree of an event (kfree(NULL) does nothing)
FreeEvent(w, e) ==
    IF e = 0 THEN w ELSE [w EXCEPT !.log.events[e].frees = @ + 1]

(* ---------------------------------------------------------------------- *)
(* Object-kind callbacks supplied by the driver (duplicate / destroy).     *)
(* ---------------------------------------------------------------------- *)
\* the snapshot gets the next identity of its object; the history records it
NewSnap(w, k) ==
    LET id == w.log.dups[k] + 1
    IN  [w |-> [w EXCEPT !.log.dups[k] = id,
                         !.log.dupcalls[k] = @ + 1,
                         !.log.snaps = @ @@ (SnapKey(k[1], k[2], id) :> 0)],
         id |-> id]

FailedDup(w, k) == [w EXCEPT !.log.dupcalls[k] = @ + 1]

\* drm_property_reference_blob / _unreference_blob; NULL is ignored
BlobRef(w, b) == IF b = 0 THEN w ELSE [w EXCEPT !.dev.blobref[b] = @ + 1]

BlobUnref(w, b) == IF b = 0 THEN w ELSE [w EXCEPT !.dev.blobref[b] = @ - 1]

\* the duplicate holds a reference on each blob of the current state
crtc_duplicate_state(w, c) ==
    LET cur == w.dev.crtcs[c].state
        Fill(n) ==
            [w |-> BlobRef(BlobRef(BlobRef(BlobRef(n.w, cur.mode_blob),
                                           cur.degamma_lut),
                                   cur.ctm),
                           cur.gamma_lut),
             st |-> [cur EXCEPT !.id = n.id, !.event = 0,
                                !.mode_changed = FALSE,
                                !.color_mgmt_changed = FALSE]]
        Allocated(a) ==
            IF ~a.ok
            THEN [w |-> FailedDup(a.w, <<"crtc", c>>), st |-> NoCrtcState]
            ELSE Fill(NewSnap(a.w, <<"crtc", c>>))
    IN  Allocated(Alloc(w))

plane_duplicate_state(w, p) ==
    LET Fill(n) ==
            [w |-> IF w.dev.planes[p].state.fb # 0
                   THEN [n.w EXCEPT
                            !.dev.fbref[w.dev.planes[p].state.fb] = @ + 1]
                   ELSE n.w,
             st |-> [w.dev.planes[p].state EXCEPT !.id = n.id, !.fence = 0]]
        Allocated(a) ==
            IF ~a.ok
            THEN [w |-> FailedDup(a.w, <<"plane", p>>), st |-> NoPlaneState]
            ELSE Fill(NewSnap(a.w, <<"plane", p>>))
    IN  Allocated(Alloc(w))

\* a duplicated connector state that has a CRTC holds a connector reference
connector_duplicate_state(w, k) ==
    LET cur == w.dev.connectors[k].state
        Fill(n) ==
            [w |-> IF cur.crtc # 0
                   THEN [n.w EXCEPT !.dev.connectors[k].refcount = @ + 1]
                   ELSE n.w,
             st |-> [cur EXCEPT !.id = n.id]]
        Allocated(a) ==
            IF ~a.ok
            THEN [w |-> FailedDup(a.w, <<"connector", k>>),
                  st |-> NoConnectorState]
            ELSE Fill(NewSnap(a.w, <<"connector", k>>))
    IN  Allocated(Alloc(w))

atomic_destroy_state(w, kind, obj, st) ==
    LET Destroyed(d) ==
            IF kind = "connector" /\ st.crtc # 0
            THEN [d EXCEPT !.dev.connectors[obj].refcount = @ - 1]
            ELSE IF kind = "plane" /\ st.fb # 0
            THEN [d EXCEPT !.dev.fbref[st.fb] = @ - 1]
            ELSE IF kind = "crtc"
            THEN BlobUnref(BlobUnref(BlobUnref(BlobUnref(d, st.mode_blob),
                                               st.degamma_lut),
                                     st.ctm),
                           st.gamma_lut)
            ELSE d
    IN  Destroyed([w EXCEPT !.log.snaps[SnapKey(kind, obj, st.id)] = @ + 1])

(* ---------------------------------------------------------------------- *)
(* Transaction container: init, alloc, clear, free.                        *)
(* ---------------------------------------------------------------------- *)
NoTransaction ==
    [allocated |-> FALSE, allow_modeset |-> FALSE,
     crtcs |-> [c \in Crtcs |-> EmptyCrtcEntry],
     planes |-> [p \in Planes |-> EmptyPlaneEntry],
     connectors |-> [k \in Connectors |-> EmptyConnectorEntry],
     num_connector |-> 0]

\* kcalloc of the crtc array, then of the plane array
drm_atomic_state_init(w) ==
    LET SecondAlloc(a2) ==
            IF ~a2.ok THEN [w |-> a2.w, ret |-> -ENOMEM]
            ELSE [w |-> [a2.w EXCEPT !.state = [NoTransaction EXCEPT
                                                   !.allocated = TRUE,
                                                   !.allow_modeset = TRUE]],
                  ret |-> 0]
        FirstAlloc(a1) ==
            IF ~a1.ok THEN [w |-> a1.w, ret |-> -ENOMEM]
            ELSE SecondAlloc(Alloc(a1.w))
    IN  FirstAlloc(Alloc(w))

drm_atomic_state_alloc(w) ==
    LET Inited(i) == [w |-> i.w, ok |-> i.ret >= 0]
        Allocated(a) ==
            IF ~a.ok THEN [w |-> a.w, ok |-> FALSE]
            ELSE Inited(drm_atomic_state_init(a.w))
    IN  Allocated(Alloc(w))

ClearConnector(w, k) ==
    LET e == w.state.connectors[k]
    IN  IF k > w.state.num_connector \/ e.ptr = 0 THEN w
        ELSE [atomic_destroy_state(w, "connector", k, e.state) EXCEPT
                  !.state.connectors[k] = EmptyConnectorEntry,
                  !.dev.connectors[k].refcount = @ - 1]

\* mutant: the CRTC entry keeps its pointers after the state is destroyed
Mut_ClearCrtc(w, c) ==
    LET e == w.state.crtcs[c]
        Put(d) == IF e.commit.present THEN FreeEvent(d, e.commit.event)
                  ELSE d
    IN  IF e.ptr = 0 THEN w
        ELSE [Put(atomic_destroy_state(w, "crtc", c, e.state)) EXCEPT
                  !.state.crtcs[c].commit = NoCommit]

ClearCrtc(w, c) ==
    LET e == w.state.crtcs[c]
        Put(d) == IF e.commit.present THEN FreeEvent(d, e.commit.event)
                  ELSE d
    IN  IF e.ptr = 0 THEN w
        ELSE [Put(atomic_destroy_state(w, "crtc", c, e.state)) EXCEPT
                  !.state.crtcs[c].commit = NoCommit,
                  !.state.crtcs[c].ptr = 0,
                  !.state.crtcs[c].state = NoCrtcState]

\* mutant: the plane loop of the clear is missing
Mut_ClearPlane(w, p) == w

ClearPlane(w, p) ==
    LET e == w.state.planes[p]
    IN  IF e.ptr = 0 THEN w
        ELSE [atomic_destroy_state(w, "plane", p, e.state) EXCEPT
                  !.state.planes[p] = EmptyPlaneEntry]

RECURSIVE ForEach(_, _, _)
\* apply Op(w, x) for every x of the set S in increasing order
ForEach(Op(_, _), w, S) ==
    IF S = {} THEN w
    ELSE LET x == CHOOSE y \in S : \A z \in S : y <= z
         IN  ForEach(Op, Op(w, x), S \ {x})

drm_atomic_state_default_clear(w) ==
    [ForEach(ClearPlane,
             ForEach(ClearCrtc, ForEach(ClearConnector, w, Connectors),
                     Crtcs),
             Planes)
         EXCEPT !.log.nclear = @ + 1,
                   !.log.got = [k \in ObjKeys |-> {}],
                   !.log.ngot = [k \in ObjKeys |-> 0],
                   !.log.dupcalls = [k \in ObjKeys |-> 0]]

drm_atomic_state_clear(w) == drm_atomic_state_default_clear(w)

\* drm_atomic_state_default_release + kfree(state)
drm_atomic_state_free(w, who) ==
    IF ~w.state.allocated
    THEN [w EXCEPT !.log.released[who] = @ + 1]
    ELSE [drm_atomic_state_clear(w) EXCEPT
              !.state.allocated = FALSE,
              !.state.num_connector = 0,
              !.log.released[who] = @ + 1]


(* ---------------------------------------------------------------------- *)
(* Get-or-create of per-object state.                                      *)
(* ---------------------------------------------------------------------- *)
\* mutant: the lookup never finds the snapshot the entry holds
Mut_get_existing_crtc_state(w, c) == NoCrtcState

drm_atomic_get_existing_crtc_state(w, c) == w.state.crtcs[c].state

drm_atomic_get_existing_plane_state(w, p) == w.state.planes[p].state

drm_atomic_get_crtc_state(w, c) ==
    LET Duplicated(d) ==
            IF d.st.id = 0
            THEN [w |-> d.w, ret |-> -ENOMEM, st |-> NoCrtcState]
            ELSE [w |-> LogGot([d.w EXCEPT !.state.crtcs[c].state = d.st,
                                           !.state.crtcs[c].ptr = c],
                               <<"crtc", c>>, d.st.id),
                  ret |-> 0, st |-> d.st]
        Locked(l) ==
            IF l.ret # 0
            THEN [w |-> l.w, ret |-> l.ret, st |-> NoCrtcState]
            ELSE Duplicated(crtc_duplicate_state(l.w, c))
        Existing(crtc_state) ==
            IF crtc_state.id # 0
            THEN [w |-> LogGot(w, <<"crtc", c>>, crtc_state.id), ret |-> 0,
                  st |-> crtc_state]
            ELSE Locked(drm_modeset_lock(w, CrtcLock(c)))
    IN  Existing(drm_atomic_get_existing_crtc_state(w, c))

drm_atomic_get_plane_state(w, p) ==
    LET WithCrtc(st, c) ==
            IF c.ret # 0
            THEN [w |-> c.w, ret |-> c.ret, st |-> NoPlaneState]
            ELSE [w |-> LogGot(c.w, <<"plane", p>>, st.id), ret |-> 0,
                  st |-> st]
        Stored(st, s) ==
            IF st.crtc # 0
            THEN WithCrtc(st, drm_atomic_get_crtc_state(s, st.crtc))
            ELSE [w |-> LogGot(s, <<"plane", p>>, st.id), ret |-> 0,
                  st |-> st]
        Duplicated(d) ==
            IF d.st.id = 0
            THEN [w |-> d.w, ret |-> -ENOMEM, st |-> NoPlaneState]
            ELSE Stored(d.st, [d.w EXCEPT !.state.planes[p].state = d.st,
                                          !.state.planes[p].ptr = p])
        Locked(l) ==
            IF l.ret # 0
            THEN [w |-> l.w, ret |-> l.ret, st |-> NoPlaneState]
            ELSE Duplicated(plane_duplicate_state(l.w, p))
        Existing(plane_state) ==
            IF plane_state.id # 0
            THEN [w |-> LogGot(w, <<"plane", p>>, plane_state.id), ret |-> 0,
                  st |-> plane_state]
            ELSE Locked(drm_modeset_lock(w, PlaneLock(p)))
    IN  Existing(drm_atomic_get_existing_plane_state(w, p))


drm_atomic_get_connector_state(w, k) ==
    LET WithCrtc(st, c) ==
            IF c.ret # 0
            THEN [w |-> c.w, ret |-> c.ret, st |-> NoConnectorState]
            ELSE [w |-> LogGot(c.w, <<"connector", k>>, st.id), ret |-> 0,
                  st |-> st]
        Stored(st, s) ==
            IF st.crtc # 0
            THEN WithCrtc(st, drm_atomic_get_crtc_state(s, st.crtc))
            ELSE [w |-> LogGot(s, <<"connector", k>>, st.id), ret |-> 0,
                  st |-> st]
        Duplicated(d) ==
            IF d.st.id = 0
            THEN [w |-> d.w, ret |-> -ENOMEM, st |-> NoConnectorState]
            ELSE Stored(d.st,
                        [d.w EXCEPT !.dev.connectors[k].refcount = @ + 1,
                                    !.state.connectors[k].state = d.st,
                                    !.state.connectors[k].ptr = k])
        Sized(g) ==
            IF g.state.connectors[k].state.id # 0
            THEN [w |-> LogGot(g, <<"connector", k>>,
                               g.state.connectors[k].state.id),
                  ret |-> 0, st |-> g.state.connectors[k].state]
            ELSE Duplicated(connector_duplicate_state(g, k))
        Grown(a) ==
            IF ~a.ok
            THEN [w |-> a.w, ret |-> -ENOMEM, st |-> NoConnectorState]
            ELSE Sized([a.w EXCEPT
                           !.state.num_connector =
                               IF k >= Cardinality(Connectors)
                               THEN k ELSE Cardinality(Connectors)])
        Locked(l) ==
            IF l.ret # 0
            THEN [w |-> l.w, ret |-> l.ret, st |-> NoConnectorState]
            ELSE IF (k - 1) >= l.w.state.num_connector
            THEN Grown(Alloc(l.w))
            ELSE Sized(l.w)
    IN  Locked(drm_modeset_lock(w, ConnectionLock))

set_out_fence_for_crtc(w, c, fence_ptr) ==
    [w EXCEPT !.state.crtcs[c].out_fence_ptr = fence_ptr]

\* returns the pointer and resets it in the entry
get_out_fence_for_crtc(w, c) ==
    [w |-> [w EXCEPT !.state.crtcs[c].out_fence_ptr = 0],
     fence_ptr |-> w.state.crtcs[c].out_fence_ptr]

(* ---------------------------------------------------------------------- *)
(* Linking planes and connectors to CRTCs.                                 *)
(* ---------------------------------------------------------------------- *)
\* mutant: the plane's bit stays in the mask of the CRTC it leaves
Mut_set_crtc_for_plane(w, p, crtc) ==
    LET old == w.state.planes[p].state.crtc
        Linked(g2) ==
            IF g2.ret # 0 THEN [w |-> g2.w, ret |-> g2.ret]
            ELSE [w |-> [g2.w EXCEPT !.state.crtcs[crtc].state.plane_mask =
                                         @ \cup {p}],
                  ret |-> 0]
        Set(s) ==
            IF crtc = 0 THEN [w |-> s, ret |-> 0]
            ELSE Linked(drm_atomic_get_crtc_state(s, crtc))
    IN  IF old = crtc THEN [w |-> w, ret |-> 0]
        ELSE Set([w EXCEPT !.state.planes[p].state.crtc = crtc])

drm_atomic_set_crtc_for_plane(w, p, crtc) ==
    LET old == w.state.planes[p].state.crtc
        Linked(g2) ==
            IF g2.ret # 0 THEN [w |-> g2.w, ret |-> g2.ret]
            ELSE [w |-> [g2.w EXCEPT !.state.crtcs[crtc].state.plane_mask =
                                         @ \cup {p}],
                  ret |-> 0]
        Set(s) ==
            IF crtc = 0 THEN [w |-> s, ret |-> 0]
            ELSE Linked(drm_atomic_get_crtc_state(s, crtc))
        Unlinked(g1) ==
            IF g1.ret # 0 THEN [w |-> g1.w, ret |-> g1.ret]
            ELSE Set([g1.w EXCEPT
                         !.state.crtcs[old].state.plane_mask = @ \ {p},
                         !.state.planes[p].state.crtc = crtc])
    IN  IF old = crtc THEN [w |-> w, ret |-> 0]
        ELSE IF old # 0 THEN Unlinked(drm_atomic_get_crtc_state(w, old))
        ELSE Set([w EXCEPT !.state.planes[p].state.crtc = crtc])

\* drm_framebuffer_reference / _unreference on fb 0 (NULL) are not called
FbRef(w, fb) == IF fb = 0 THEN w ELSE [w EXCEPT !.dev.fbref[fb] = @ + 1]

\* the reference that brings the count to zero frees the framebuffer
FbUnref(w, fb) ==
    IF fb = 0 THEN w
    ELSE [w EXCEPT !.dev.fbref[fb] = @ - 1,
                   !.log.freed_fbs = IF w.dev.fbref[fb] = 1
                                     THEN @ \cup {fb} ELSE @]

drm_atomic_set_fb_for_plane(w, p, fb) ==
    [FbRef(FbUnref(w, w.state.planes[p].state.fb), fb) EXCEPT
         !.state.planes[p].state.fb = fb]

\* mutant: the unlink keeps the reference on the connector
Mut_set_crtc_for_connector(w, k, crtc) ==
    LET old == w.state.connectors[k].state.crtc
        Linked(g) ==
            IF g.ret # 0 THEN [w |-> g.w, ret |-> g.ret]
            ELSE [w |-> [g.w EXCEPT
                            !.state.crtcs[crtc].state.connector_mask =
                                @ \cup {k},
                            !.dev.connectors[k].refcount = @ + 1,
                            !.state.connectors[k].state.crtc = crtc],
                  ret |-> 0]
        Unlinked(u) ==
            IF crtc = 0 THEN [w |-> u, ret |-> 0]
            ELSE Linked(drm_atomic_get_crtc_state(u, crtc))
    IN  IF old = crtc THEN [w |-> w, ret |-> 0]
        ELSE IF old # 0
        THEN Unlinked([w EXCEPT
                          !.state.crtcs[old].state.connector_mask = @ \ {k},
                          !.state.connectors[k].state.crtc = 0])
        ELSE Unlinked(w)

drm_atomic_set_crtc_for_connector(w, k, crtc) ==
    LET old == w.state.connectors[k].state.crtc
        Linked(g) ==
            IF g.ret # 0 THEN [w |-> g.w, ret |-> g.ret]
            ELSE [w |-> [g.w EXCEPT
                            !.state.crtcs[crtc].state.connector_mask =
                                @ \cup {k},
                            !.dev.connectors[k].refcount = @ + 1,
                            !.state.connectors[k].state.crtc = crtc],
                  ret |-> 0]
        Unlinked(u) ==
            IF crtc = 0 THEN [w |-> u, ret |-> 0]
            ELSE Linked(drm_atomic_get_crtc_state(u, crtc))
    IN  IF old = crtc THEN [w |-> w, ret |-> 0]
        ELSE IF old # 0
        THEN Unlinked([w EXCEPT
                          !.state.crtcs[old].state.connector_mask = @ \ {k},
                          !.dev.connectors[k].refcount = @ - 1,
                          !.state.connectors[k].state.crtc = 0])
        ELSE Unlinked(w)


(* ---------------------------------------------------------------------- *)
(* Property dispatch.                                                      *)
(* ---------------------------------------------------------------------- *)
\* drm_crtc_find / drm_framebuffer_lookup: the object of that id, or NULL
drm_crtc_find(val) == IF val \in Crtcs THEN val ELSE 0

drm_framebuffer_lookup(val) == IF val \in Fbs THEN val ELSE 0

\* put_user(v, ptr) on a writable user location
put_user(w, ptr, v) == [w EXCEPT !.user.mem[ptr] = v]

\* drm_property_lookup_blob: the blob of that id with a reference taken, or
\* NULL
drm_property_lookup_blob(val) == IF val \in Blobs THEN val ELSE 0

\* sync_file_get_fence: the fence of a sync file descriptor, or NULL
\* descriptor 5 of the calling process is a sync file
sync_file_get_fence(val) == IF val = 5 THEN val ELSE 0

\* a 64-bit property value is written as the signed number with the same
\* bits, so the all-ones word is -1 and the reinterpretation keeps the number
U642I64(val) == val

\* crtc->funcs->atomic_set_property and its plane and connector likes: the
\* driver accepts value 0 for its own property and refuses any other
atomic_set_property_hook(w, obj, property, val) ==
    [w |-> [w EXCEPT !.log.ext_calls = Append(@, <<obj, property, val>>)],
     ret |-> IF val = 0 THEN 0 ELSE -ERANGE]

drm_atomic_set_mode_prop_for_crtc(w, c, blob) ==
    LET Dropped(u) ==
            IF blob # 0
            THEN IF ~BlobInfo(blob).mode_ok THEN [w |-> u, ret |-> -EINVAL]
                 ELSE [w |-> [BlobRef(u, blob) EXCEPT
                                  !.state.crtcs[c].state.mode =
                                      BlobInfo(blob).mode,
                                  !.state.crtcs[c].state.mode_blob = blob,
                                  !.state.crtcs[c].state.enable = TRUE],
                       ret |-> 0]
            ELSE [w |-> [u EXCEPT !.state.crtcs[c].state.enable = FALSE],
                  ret |-> 0]
    IN  IF blob = w.state.crtcs[c].state.mode_blob THEN [w |-> w, ret |-> 0]
        ELSE Dropped([BlobUnref(w, w.state.crtcs[c].state.mode_blob) EXCEPT
                          !.state.crtcs[c].state.mode_blob = 0,
                          !.state.crtcs[c].state.mode = 0])

\* drm_property_create_blob: a new blob with one reference, or an error
\* pointer (a negative value) when the allocation fails
drm_property_create_blob(w) ==
    LET Created(a, id) ==
            IF ~a.ok THEN [w |-> a.w, blob |-> -ENOMEM]
            ELSE [w |-> [a.w EXCEPT !.dev.blobref = @ @@ (id :> 1)],
                  blob |-> id]
    IN  Created(Alloc(w), Cardinality(DOMAIN w.dev.blobref) + 1)

\* mutant: the enable flag is left alone, as the comment above the function
\* in the source says
Mut_set_mode_for_crtc(w, c, mode) ==
    LET Created(r) ==
            IF r.blob < 0
            THEN [w |-> [r.w EXCEPT !.state.crtcs[c].state.mode_blob = r.blob],
                  ret |-> r.blob]
            ELSE [w |-> [r.w EXCEPT !.state.crtcs[c].state.mode_blob = r.blob,
                                    !.state.crtcs[c].state.mode = mode],
                  ret |-> 0]
        Dropped(u) ==
            IF mode # 0 THEN Created(drm_property_create_blob(u))
            ELSE [w |-> [u EXCEPT !.state.crtcs[c].state.mode = 0],
                  ret |-> 0]
    IN  IF mode # 0 /\ w.state.crtcs[c].state.mode = mode
        THEN [w |-> w, ret |-> 0]
        ELSE Dropped([BlobUnref(w, w.state.crtcs[c].state.mode_blob) EXCEPT
                          !.state.crtcs[c].state.mode_blob = 0])

\* mode 0 is the NULL argument
drm_atomic_set_mode_for_crtc(w, c, mode) ==
    LET Created(r) ==
            IF r.blob < 0
            THEN [w |-> [r.w EXCEPT !.state.crtcs[c].state.mode_blob = r.blob],
                  ret |-> r.blob]
            ELSE [w |-> [r.w EXCEPT !.state.crtcs[c].state.mode_blob = r.blob,
                                    !.state.crtcs[c].state.mode = mode,
                                    !.state.crtcs[c].state.enable = TRUE],
                  ret |-> 0]
        Dropped(u) ==
            IF mode # 0 THEN Created(drm_property_create_blob(u))
            ELSE [w |-> [u EXCEPT !.state.crtcs[c].state.mode = 0,
                                  !.state.crtcs[c].state.enable = FALSE],
                  ret |-> 0]
    IN  IF mode # 0 /\ w.state.crtcs[c].state.mode = mode
        THEN [w |-> w, ret |-> 0]
        ELSE Dropped([BlobUnref(w, w.state.crtcs[c].state.mode_blob) EXCEPT
                          !.state.crtcs[c].state.mode_blob = 0])

\* mutant: the blob that is replaced keeps its reference
Mut_replace_property_blob(w, c, field, new_blob) ==
    IF w.state.crtcs[c].state[field] = new_blob
    THEN [w |-> w, replaced |-> FALSE]
    ELSE [w |-> [BlobRef(w, new_blob) EXCEPT
                    !.state.crtcs[c].state[field] = new_blob],
          replaced |-> TRUE]

\* field names the blob pointer of the CRTC snapshot that is replaced
drm_atomic_replace_property_blob(w, c, field, new_blob) ==
    IF w.state.crtcs[c].state[field] = new_blob
    THEN [w |-> w, replaced |-> FALSE]
    ELSE [w |-> [BlobRef(BlobUnref(w, w.state.crtcs[c].state[field]),
                         new_blob) EXCEPT
                    !.state.crtcs[c].state[field] = new_blob],
          replaced |-> TRUE]

\* expected_size is "any" for -1 and else the record the length must be of
drm_atomic_replace_property_blob_from_id(w, c, field, blob_id, expected_size) ==
    LET Replaced(r, new_blob) ==
            [w |-> BlobUnref(r.w, new_blob), ret |-> 0,
             replaced |-> r.replaced]
        Looked(new_blob) ==
            IF blob_id # 0 /\ new_blob = 0
            THEN [w |-> w, ret |-> -EINVAL, replaced |-> FALSE]
            ELSE IF blob_id # 0 /\ expected_size # "any"
                    /\ expected_size # BlobInfo(new_blob).length
            THEN [w |-> BlobUnref(BlobRef(w, new_blob), new_blob),
                  ret |-> -EINVAL, replaced |-> FALSE]
            ELSE Replaced(drm_atomic_replace_property_blob(
                              BlobRef(w, new_blob), c, field, new_blob),
                          new_blob)
    IN  Looked(IF blob_id # 0 THEN drm_property_lookup_blob(blob_id) ELSE 0)

\* the degamma_lut, ctm and gamma_lut branches of
\* drm_atomic_crtc_set_property
SetColorBlob(w, c, field, val, expected_size) ==
    LET Changed(r) ==
            [w |-> [r.w EXCEPT !.state.crtcs[c].state.color_mgmt_changed =
                                   @ \/ r.replaced],
             ret |-> r.ret]
    IN  Changed(drm_atomic_replace_property_blob_from_id(w, c, field, val,
                                                         expected_size))

\* mutant: the pointer is stored without the -1 written through it
Mut_crtc_set_property(w, c, property, val) ==
    LET Looked(mode) ==
            LET Set(r) == [w |-> BlobUnref(r.w, mode), ret |-> r.ret]
            IN  Set(drm_atomic_set_mode_prop_for_crtc(BlobRef(w, mode), c,
                                                      mode))
    IN  IF property = "ACTIVE"
        THEN [w |-> [w EXCEPT !.state.crtcs[c].state.active = (val # 0)],
              ret |-> 0]
        ELSE IF property = "MODE_ID"
        THEN Looked(drm_property_lookup_blob(val))
        ELSE IF property = "DEGAMMA_LUT"
        THEN SetColorBlob(w, c, "degamma_lut", val, "any")
        ELSE IF property = "CTM"
        THEN SetColorBlob(w, c, "ctm", val, "ctm")
        ELSE IF property = "GAMMA_LUT"
        THEN SetColorBlob(w, c, "gamma_lut", val, "any")
        ELSE IF property = "OUT_FENCE_PTR"
        THEN IF val = 0 THEN [w |-> w, ret |-> 0]
             ELSE [w |-> [set_out_fence_for_crtc(w, c, val)
                             EXCEPT !.log.touched = @ \cup {val}],
                   ret |-> 0]
        ELSE IF w.dev.funcs.crtc
        THEN atomic_set_property_hook(w, <<"crtc", c>>, property, val)
        ELSE [w |-> w, ret |-> -EINVAL]

drm_atomic_crtc_set_property(w, c, property, val) ==
    LET Looked(mode) ==
            LET Set(r) == [w |-> BlobUnref(r.w, mode), ret |-> r.ret]
            IN  Set(drm_atomic_set_mode_prop_for_crtc(BlobRef(w, mode), c,
                                                      mode))
    IN  IF property = "ACTIVE"
        THEN [w |-> [w EXCEPT !.state.crtcs[c].state.active = (val # 0)],
              ret |-> 0]
        ELSE IF property = "MODE_ID"
        THEN Looked(drm_property_lookup_blob(val))
        ELSE IF property = "DEGAMMA_LUT"
        THEN SetColorBlob(w, c, "degamma_lut", val, "any")
        ELSE IF property = "CTM"
        THEN SetColorBlob(w, c, "ctm", val, "ctm")
        ELSE IF property = "GAMMA_LUT"
        THEN SetColorBlob(w, c, "gamma_lut", val, "any")
        ELSE IF property = "OUT_FENCE_PTR"
        THEN IF val = 0 THEN [w |-> w, ret |-> 0]
             ELSE [w |-> [set_out_fence_for_crtc(put_user(w, val, -1), c, val)
                             EXCEPT !.log.touched = @ \cup {val}],
                   ret |-> 0]
        ELSE IF w.dev.funcs.crtc
        THEN atomic_set_property_hook(w, <<"crtc", c>>, property, val)
        ELSE [w |-> w, ret |-> -EINVAL]

\* mutant: a fence descriptor replaces the fence the snapshot holds
Mut_SetInFenceFd(w, p, val) ==
    LET Got(fence) ==
            [w |-> [w EXCEPT !.state.planes[p].state.fence = fence],
             ret |-> IF fence = 0 THEN -EINVAL ELSE 0]
    IN  IF U642I64(val) = -1 THEN [w |-> w, ret |-> 0]
        ELSE Got(sync_file_get_fence(val))

\* the prop_in_fence_fd branch of drm_atomic_plane_set_property
SetInFenceFd(w, p, val) ==
    LET Got(fence) ==
            [w |-> [w EXCEPT !.state.planes[p].state.fence = fence],
             ret |-> IF fence = 0 THEN -EINVAL ELSE 0]
    IN  IF w.state.planes[p].state.fence # 0 THEN [w |-> w, ret |-> -EINVAL]
        ELSE IF U642I64(val) = -1 THEN [w |-> w, ret |-> 0]
        ELSE Got(sync_file_get_fence(val))

drm_atomic_plane_set_property(w, p, property, val) ==
    LET Looked(fb) ==
            [w |-> FbUnref(drm_atomic_set_fb_for_plane(FbRef(w, fb), p, fb),
                           fb),
             ret |-> 0]
        Field(v) == [w |-> v, ret |-> 0]
    IN  IF property = "FB_ID"
        THEN Looked(drm_framebuffer_lookup(val))
        ELSE IF property = "IN_FENCE_FD"
        THEN SetInFenceFd(w, p, val)
        ELSE IF property = "CRTC_ID"
        THEN drm_atomic_set_crtc_for_plane(w, p, drm_crtc_find(val))
        ELSE IF property = "CRTC_X"
        THEN Field([w EXCEPT !.state.planes[p].state.crtc_x = U642I64(val)])
        ELSE IF property = "CRTC_Y"
        THEN Field([w EXCEPT !.state.planes[p].state.crtc_y = U642I64(val)])
        ELSE IF property = "CRTC_W"
        THEN Field([w EXCEPT !.state.planes[p].state.crtc_w = val])
        ELSE IF property = "CRTC_H"
        THEN Field([w EXCEPT !.state.planes[p].state.crtc_h = val])
        ELSE IF property = "SRC_X"
        THEN Field([w EXCEPT !.state.planes[p].state.src_x = val])
        ELSE IF property = "SRC_Y"
        THEN Field([w EXCEPT !.state.planes[p].state.src_y = val])
        ELSE IF property = "SRC_W"
        THEN Field([w EXCEPT !.state.planes[p].state.src_w = val])
        ELSE IF property = "SRC_H"
        THEN Field([w EXCEPT !.state.planes[p].state.src_h = val])
        ELSE IF property = "rotation"
        THEN Field([w EXCEPT !.state.planes[p].state.rotation = val])
        ELSE IF property = "zpos"
        THEN Field([w EXCEPT !.state.planes[p].state.zpos = val])
        ELSE IF w.dev.funcs.plane
        THEN atomic_set_property_hook(w, <<"plane", p>>, property, val)
        ELSE [w |-> w, ret |-> -EINVAL]

\* mutant: the driver's callback is asked before the DPMS property is refused
Mut_connector_set_property(w, k, property, val) ==
    IF property = "CRTC_ID"
    THEN drm_atomic_set_crtc_for_connector(w, k, drm_crtc_find(val))
    ELSE IF w.dev.funcs.connector
    THEN atomic_set_property_hook(w, <<"connector", k>>, property, val)
    ELSE [w |-> w, ret |-> -EINVAL]

drm_atomic_connector_set_property(w, k, property, val) ==
    IF property = "CRTC_ID"
    THEN drm_atomic_set_crtc_for_connector(w, k, drm_crtc_find(val))
    ELSE IF property = "DPMS"
    THEN [w |-> w, ret |-> -EINVAL]
    ELSE IF w.dev.funcs.connector
    THEN atomic_set_property_hook(w, <<"connector", k>>, property, val)
    ELSE [w |-> w, ret |-> -EINVAL]

atomic_set_prop(w, obj, prop, prop_value) ==
    LET Connector(g) ==
            IF g.ret # 0 THEN [w |-> g.w, ret |-> g.ret]
            ELSE drm_atomic_connector_set_property(g.w, obj[2], prop,
                                                   prop_value)
        Crtc(g) ==
            IF g.ret # 0 THEN [w |-> g.w, ret |-> g.ret]
            ELSE drm_atomic_crtc_set_property(g.w, obj[2], prop, prop_value)
        Plane(g) ==
            IF g.ret # 0 THEN [w |-> g.w, ret |-> g.ret]
            ELSE drm_atomic_plane_set_property(g.w, obj[2], prop, prop_value)
    IN  IF obj[1] = "connector"
        THEN Connector(drm_atomic_get_connector_state(w, obj[2]))
        ELSE IF obj[1] = "crtc"
        THEN Crtc(drm_atomic_get_crtc_state(w, obj[2]))
        ELSE IF obj[1] = "plane"
        THEN Plane(drm_atomic_get_plane_state(w, obj[2]))
        ELSE [w |-> w, ret |-> -EINVAL]

(* ---------------------------------------------------------------------- *)
(* Consistency checks.                                                     *)
(* ---------------------------------------------------------------------- *)
\* x << 16 in an unsigned int: the upper 16 bits of x are shifted out
Shl16(x) == (x % 65536) * 65536

\* plane->possible_crtcs
PossibleCrtcs(p) == Crtcs

\* mutant: a plane may move from one CRTC to another directly
Mut_plane_switching_crtc(w, p, plane_state) == FALSE

plane_switching_crtc(w, p, plane_state) ==
    IF w.dev.planes[p].state.crtc = 0 \/ plane_state.crtc = 0 THEN FALSE
    ELSE IF w.dev.planes[p].state.crtc = plane_state.crtc THEN FALSE
    ELSE TRUE

\* mutant: a disabled plane is checked like an enabled one
Mut_plane_check(w, p, st) ==
    LET fb_width == Shl16(FbInfo(st.fb).width)
        fb_height == Shl16(FbInfo(st.fb).height)
    IN  IF st.crtc # 0 /\ st.fb = 0 THEN -EINVAL
        ELSE IF st.fb # 0 /\ st.crtc = 0 THEN -EINVAL
        ELSE IF st.crtc \notin PossibleCrtcs(p) THEN -EINVAL
        ELSE IF ~FbInfo(st.fb).format_ok THEN -EINVAL
        ELSE IF \/ st.crtc_w > INT_MAX
                \/ st.crtc_x > INT_MAX - st.crtc_w
                \/ st.crtc_h > INT_MAX
                \/ st.crtc_y > INT_MAX - st.crtc_h
        THEN -ERANGE
        ELSE IF \/ st.src_w > fb_width
                \/ st.src_x > fb_width - st.src_w
                \/ st.src_h > fb_height
                \/ st.src_y > fb_height - st.src_h
        THEN -ENOSPC
        ELSE IF plane_switching_crtc(w, p, st) THEN -EINVAL
        ELSE 0

drm_atomic_plane_check(w, p, st) ==
    LET fb_width == Shl16(FbInfo(st.fb).width)
        fb_height == Shl16(FbInfo(st.fb).height)
    IN  IF st.crtc # 0 /\ st.fb = 0 THEN -EINVAL
        ELSE IF st.fb # 0 /\ st.crtc = 0 THEN -EINVAL
        ELSE IF st.crtc = 0 THEN 0
        ELSE IF st.crtc \notin PossibleCrtcs(p) THEN -EINVAL
        ELSE IF ~FbInfo(st.fb).format_ok THEN -EINVAL
        ELSE IF \/ st.crtc_w > INT_MAX
                \/ st.crtc_x > INT_MAX - st.crtc_w
                \/ st.crtc_h > INT_MAX
                \/ st.crtc_y > INT_MAX - st.crtc_h
        THEN -ERANGE
        ELSE IF \/ st.src_w > fb_width
                \/ st.src_x > fb_width - st.src_w
                \/ st.src_h > fb_height
                \/ st.src_y > fb_height - st.src_h
        THEN -ENOSPC
        ELSE IF plane_switching_crtc(w, p, st) THEN -EINVAL
        ELSE 0

\* mutant: events are accepted on a CRTC that is off and stays off
Mut_crtc_check(w, c, st) ==
    IF st.active /\ ~st.enable THEN -EINVAL
    ELSE IF st.enable /\ st.mode_blob = 0 THEN -EINVAL
    ELSE IF ~st.enable /\ st.mode_blob # 0 THEN -EINVAL
    ELSE 0

drm_atomic_crtc_check(w, c, st) ==
    IF st.active /\ ~st.enable THEN -EINVAL
    ELSE IF st.enable /\ st.mode_blob = 0 THEN -EINVAL
    ELSE IF ~st.enable /\ st.mode_blob # 0 THEN -EINVAL
    ELSE IF st.event # 0 /\ ~st.active /\ ~w.dev.crtcs[c].state.active
    THEN -EINVAL
    ELSE 0

\* mode_changed || active_changed || connectors_changed: the flags of the
\* snapshot, which the driver's atomic_check derives by comparing the
\* snapshot with the state the CRTC has now
drm_atomic_crtc_needs_modeset(w, c) ==
    LET st == w.state.crtcs[c].state
        cur == w.dev.crtcs[c].state
    IN  \/ st.mode_changed
        \/ st.mode_blob # cur.mode_blob
        \/ st.active # cur.active
        \/ st.connector_mask # cur.connector_mask

PlanesInState(w) == {p \in Planes : w.state.planes[p].ptr # 0}

CrtcsInState(w) == {c \in Crtcs : w.state.crtcs[c].ptr # 0}

\* the first error that Check reports over S in increasing order, or 0
RECURSIVE FirstError(_, _)
FirstError(Check(_), S) ==
    LET Checked(x, r) == IF r # 0 THEN r ELSE FirstError(Check, S \ {x})
        First(x) == Checked(x, Check(x))
    IN  IF S = {} THEN 0
        ELSE First(CHOOSE y \in S : \A z \in S : y <= z)

\* config->funcs->atomic_check of the driver: a CRTC must be enabled exactly
\* when connectors are routed to it
atomic_check_hook(w) ==
    IF \E c \in CrtcsInState(w) :
           w.state.crtcs[c].state.enable
               # (w.state.crtcs[c].state.connector_mask # {})
    THEN -EINVAL
    ELSE 0

\* mutant: the check marks every CRTC of the transaction for a full modeset
Mut_check_only(w) ==
    LET Mark(v, c) == [v EXCEPT !.state.crtcs[c].state.mode_changed = TRUE]
        Result(ret) ==
            [w |-> [ForEach(Mark, w, CrtcsInState(w)) EXCEPT
                        !.log.check_rets = Append(@, ret)],
             ret |-> ret]
    IN  Result(IF ~w.state.allow_modeset
                  /\ \E c \in CrtcsInState(w) :
                         drm_atomic_crtc_needs_modeset(w, c)
               THEN -EINVAL
               ELSE 0)

\* mutant: the global hook runs first, before the planes and CRTCs are checked
Mut_check_only_hook_first(w) ==
    LET PlaneCheck(p) == drm_atomic_plane_check(w, p, w.state.planes[p].state)
        CrtcCheck(c) == drm_atomic_crtc_check(w, c, w.state.crtcs[c].state)
        Result(ret) ==
            [w |-> [w EXCEPT !.log.check_rets = Append(@, ret),
                             !.log.hook_calls = @ + 1],
             ret |-> ret]
        Checked(hr, pr, cr) ==
            IF hr # 0 THEN hr
            ELSE IF pr # 0 THEN pr
            ELSE IF cr # 0 THEN cr
            ELSE IF ~w.state.allow_modeset
                    /\ \E c \in CrtcsInState(w) :
                           drm_atomic_crtc_needs_modeset(w, c)
            THEN -EINVAL
            ELSE 0
    IN  Result(Checked(atomic_check_hook(w),
                       FirstError(PlaneCheck, PlanesInState(w)),
                       FirstError(CrtcCheck, CrtcsInState(w))))

drm_atomic_check_only(w) ==
    LET PlaneCheck(p) == drm_atomic_plane_check(w, p, w.state.planes[p].state)
        CrtcCheck(c) == drm_atomic_crtc_check(w, c, w.state.crtcs[c].state)
        Result(ret, hooked) ==
            [w |-> [w EXCEPT !.log.check_rets = Append(@, ret),
                             !.log.hook_calls = @ + hooked],
             ret |-> ret]
        Hooked(hr) ==
            IF hr # 0 THEN Result(hr, 1)
            ELSE IF ~w.state.allow_modeset
                    /\ \E c \in CrtcsInState(w) :
                           drm_atomic_crtc_needs_modeset(w, c)
            THEN Result(-EINVAL, 1)
            ELSE Result(0, 1)
        Checked(pr, cr) ==
            IF pr # 0 THEN Result(pr, 0)
            ELSE IF cr # 0 THEN Result(cr, 0)
            ELSE Hooked(atomic_check_hook(w))
    IN  Checked(FirstError(PlaneCheck, PlanesInState(w)),
                FirstError(CrtcCheck, CrtcsInState(w)))

(* ---------------------------------------------------------------------- *)
(* Commit.                                                                 *)
(* ---------------------------------------------------------------------- *)
NewEvent(w, c, by) ==
    [w EXCEPT !.log.events = Append(@, [crtc |-> c, by |-> by,
                                        fence |-> FALSE, file_priv |-> FALSE,
                                        frees |-> 0, delivered |-> FALSE,
                                        attempt |-> w.log.nretry])]

\* the commit preparation of the driver: every CRTC of the transaction gets
\* a commit record, which brings its own event when the state has none
SetupCommitCrtc(w, c) ==
    LET Own(n, e) ==
            [n EXCEPT !.state.crtcs[c].commit = [present |-> TRUE, event |-> e],
                      !.state.crtcs[c].state.event = e]
    IN  IF w.state.crtcs[c].state.event # 0
        THEN [w EXCEPT !.state.crtcs[c].commit =
                           [present |-> TRUE, event |-> 0]]
        ELSE Own(NewEvent(w, c, "hook"), Len(w.log.events) + 1)

\* swap the snapshots into the device; the transaction keeps the old states
SwapCrtc(w, c) ==
    LET new == w.state.crtcs[c].state
        old == w.dev.crtcs[c].state
        Deliver(d) ==
            [d EXCEPT !.dev.crtcs[c].state = [new EXCEPT !.id = 0, !.event = 0],
                      !.state.crtcs[c].state = [old EXCEPT !.id = new.id],
                      !.state.crtcs[c].commit = NoCommit]
    IN  Deliver(IF new.event = 0 THEN w
                ELSE [w EXCEPT !.log.events[new.event].delivered = TRUE])

SwapPlane(w, p) ==
    LET new == w.state.planes[p].state
        old == w.dev.planes[p].state
    IN  [w EXCEPT !.dev.planes[p].state = [new EXCEPT !.id = 0],
                  !.state.planes[p].state = [old EXCEPT !.id = new.id]]

SwapConnector(w, k) ==
    LET new == w.state.connectors[k].state
        old == w.dev.connectors[k].state
    IN  [w EXCEPT !.dev.connectors[k].state = [new EXCEPT !.id = 0],
                  !.state.connectors[k].state = [old EXCEPT !.id = new.id]]


\* config->funcs->atomic_commit of the driver.  On success it owns the
\* transaction: a blocking commit releases it before returning, a
\* nonblocking one leaves that to its worker.
atomic_commit_hook(w, nonblocking) ==
    LET Owned(o) ==
            [w |-> IF nonblocking THEN o ELSE drm_atomic_state_free(o, "hook"),
             ret |-> 0]
        SwappedPlanes(x2) ==
            Owned([ForEach(SwapConnector, x2,
                           {k \in Connectors : x2.state.connectors[k].ptr # 0}) EXCEPT
                       !.log.owner = "hook"])
        SwappedCrtcs(x1) == SwappedPlanes(ForEach(SwapPlane, x1, PlanesInState(x1)))
        Prepared(s) ==
            IF s.fail = 1 /\ s.log.ndeadlock < MaxDeadlocks
            THEN [w |-> [s EXCEPT !.fail = 0, !.log.ndeadlock = @ + 1],
                  ret |-> -EDEADLK]
            ELSE IF s.fail = 2
            THEN [w |-> [s EXCEPT !.fail = 0], ret |-> -ENOMEM]
            ELSE SwappedCrtcs(ForEach(SwapCrtc, s, CrtcsInState(s)))
        Called(l) == Prepared(ForEach(SetupCommitCrtc, l, CrtcsInState(l)))
    IN  Called([w EXCEPT !.log.commit_calls = Append(@, nonblocking)])

\* mutant: the hook is called whatever the check returned
Mut_drm_atomic_commit(w) ==
    atomic_commit_hook(drm_atomic_check_only(w).w, FALSE)

drm_atomic_commit(w) ==
    LET Checked(c) == IF c.ret # 0 THEN c ELSE atomic_commit_hook(c.w, FALSE)
    IN  Checked(drm_atomic_check_only(w))

drm_atomic_nonblocking_commit(w) ==
    LET Checked(c) == IF c.ret # 0 THEN c ELSE atomic_commit_hook(c.w, TRUE)
    IN  Checked(drm_atomic_check_only(w))

(* ---------------------------------------------------------------------- *)
(* Out-fences and completion events of the ioctl.                          *)
(* ---------------------------------------------------------------------- *)
\* the i-th descriptor handed out: numbers start after stdin, stdout, stderr
FdOf(i) == i + 2

FdIndex(fd) == fd - 2

\* get_unused_fd_flags: reserves the next descriptor, or fails
get_unused_fd_flags(w) ==
    LET Reserved(a) ==
            IF ~a.ok THEN [w |-> a.w, fd |-> -EMFILE]
            ELSE [w |-> [a.w EXCEPT !.user.fds = Append(@,
                             [installs |-> 0, puts |-> 0, sync |-> "none",
                              attempt |-> w.log.nretry,
                              checks |-> Len(w.log.check_rets)])],
                  fd |-> FdOf(Len(w.user.fds) + 1)]
    IN  Reserved(Alloc(w))

\* fills f[idx]; the caller has counted the entry already
setup_out_fence(w, idx) ==
    LET ptr == w.local.fence_state[idx].out_fence_ptr
        \* sync_file_create
        Synced(fd, a) ==
            IF ~a.ok THEN [w |-> a.w, ret |-> -ENOMEM]
            ELSE [w |-> [a.w EXCEPT !.local.fence_state[idx].sync_file = fd,
                                    !.user.fds[FdIndex(fd)].sync = "created"],
                  ret |-> 0]
        Stored(fd, f1) ==
            IF fd < 0 THEN [w |-> f1, ret |-> fd]
            ELSE Synced(fd, Alloc(put_user(f1, ptr, fd)))
        Reserved(g) ==
            Stored(g.fd, [g.w EXCEPT !.local.fence_state[idx].fd = g.fd])
    IN  Reserved(get_unused_fd_flags(w))

PrepareCrtc(w, c) ==
    LET flip == "PAGE_FLIP_EVENT" \in w.arg.flags
        Fenced(e, s) ==
            IF s.ret # 0 THEN s
            ELSE [w |-> [s.w EXCEPT !.log.events[e].fence = TRUE], ret |-> 0]
        \* drm_crtc_create_fence
        Created(e, a4) ==
            IF ~a4.ok THEN [w |-> a4.w, ret |-> -ENOMEM]
            ELSE Fenced(e, setup_out_fence(
                               [a4.w EXCEPT !.local.num_fences = @ + 1],
                               a4.w.local.num_fences + 1))
        \* krealloc of the fence_state array
        Grown(e, fence_ptr, a3) ==
            IF ~a3.ok THEN [w |-> a3.w, ret |-> -ENOMEM]
            ELSE Created(e, Alloc([a3.w EXCEPT !.local.fence_state =
                                       Append(@, [out_fence_ptr |-> fence_ptr,
                                                  sync_file |-> 0,
                                                  fd |-> 0])]))
        Fence(e, fence_ptr, w2) ==
            IF fence_ptr = 0 THEN [w |-> w2, ret |-> 0]
            ELSE Grown(e, fence_ptr, Alloc(w2))
        \* drm_event_reserve_init
        Reserved(e, fence_ptr, a2) ==
            IF ~a2.ok
            THEN [w |-> [FreeEvent(a2.w, e) EXCEPT
                             !.state.crtcs[c].state.event = 0],
                  ret |-> -ENOMEM]
            ELSE Fence(e, fence_ptr,
                       [a2.w EXCEPT !.log.events[e].file_priv = TRUE])
        Attached(e, fence_ptr, w1) ==
            IF flip THEN Reserved(e, fence_ptr, Alloc(w1))
            ELSE Fence(e, fence_ptr, w1)
        \* create_vblank_event
        Event(fence_ptr, a1) ==
            IF ~a1.ok THEN [w |-> a1.w, ret |-> -ENOMEM]
            ELSE Attached(Len(a1.w.log.events) + 1, fence_ptr,
                          [NewEvent(a1.w, c, "ioctl") EXCEPT
                               !.state.crtcs[c].state.event =
                                   Len(a1.w.log.events) + 1])
        Got(g) ==
            IF flip \/ g.fence_ptr # 0 THEN Event(g.fence_ptr, Alloc(g.w))
            ELSE [w |-> g.w, ret |-> 0]
    IN  Got(get_out_fence_for_crtc(w, c))

RECURSIVE PrepareCrtcs(_, _)
PrepareCrtcs(w, S) ==
    LET Prepared(c, r) == IF r.ret # 0 THEN r ELSE PrepareCrtcs(r.w, S \ {c})
        First(c) == Prepared(c, PrepareCrtc(w, c))
    IN  IF S = {} THEN [w |-> w, ret |-> 0]
        ELSE First(CHOOSE y \in S : \A z \in S : y <= z)

\* mutant: the preparation is skipped as if the request were test-only
Mut_prepare_crtc_signaling(w) == [w |-> w, ret |-> 0]

prepare_crtc_signaling(w) ==
    IF "TEST_ONLY" \in w.arg.flags THEN [w |-> w, ret |-> 0]
    ELSE PrepareCrtcs(w, CrtcsInState(w))

\* drm_event_cancel_free of the events the ioctl created
CancelCrtcEvent(w, c) ==
    LET e == w.state.crtcs[c].state.event
    IN  IF e # 0 /\ (w.log.events[e].fence \/ w.log.events[e].file_priv)
        THEN [FreeEvent(w, e) EXCEPT !.state.crtcs[c].state.event = 0]
        ELSE w


\* mutant: the descriptor is not given back
Mut_ReleaseFence(w, i) ==
    LET f == w.local.fence_state[i]
        w1 == IF f.sync_file # 0
              THEN [w EXCEPT !.user.fds[FdIndex(f.sync_file)].sync =
                                 "released"]
              ELSE w
    IN  IF f.out_fence_ptr # 0 THEN put_user(w1, f.out_fence_ptr, -1)
        ELSE w1

ReleaseFence(w, i) ==
    LET f == w.local.fence_state[i]
        w1 == IF f.sync_file # 0
              THEN [w EXCEPT !.user.fds[FdIndex(f.sync_file)].sync =
                                 "released"]
              ELSE w
        w2 == IF f.fd >= 0
              THEN [w1 EXCEPT !.user.fds[FdIndex(f.fd)].puts = @ + 1]
              ELSE w1
    IN  IF f.out_fence_ptr # 0 THEN put_user(w2, f.out_fence_ptr, -1)
        ELSE w2

complete_crtc_signaling(w, install_fds) ==
    LET n == 1 .. w.local.num_fences
        Cancelled(c) ==
            IF w.local.fence_state = <<>> THEN c
            ELSE [ForEach(ReleaseFence, c, n) EXCEPT
                      !.local.fence_state = <<>>]
    IN  IF install_fds
        THEN [ForEach(LAMBDA x, i :
                          [x EXCEPT !.user.fds[FdIndex(
                               x.local.fence_state[i].fd)].installs = @ + 1],
                      w, n)
                  EXCEPT !.local.fence_state = <<>>]
        ELSE Cancelled(ForEach(CancelCrtcEvent, w, CrtcsInState(w)))

\* mutant: old_fb is reset only on the path that updates fb and crtc
Mut_clean_old_fb(w, plane_mask, ret) ==
    LET Clean(v, p) ==
            LET new_fb == v.dev.planes[p].state.fb
                r == FbRef(v, new_fb)
                u == FbUnref(r, v.dev.planes[p].old_fb)
            IN  IF ret = 0
                THEN [u EXCEPT !.dev.planes[p].fb = new_fb,
                               !.dev.planes[p].crtc = v.dev.planes[p].state.crtc,
                               !.dev.planes[p].old_fb = 0]
                ELSE v
    IN  ForEach(Clean, w, plane_mask)

drm_atomic_clean_old_fb(w, plane_mask, ret) ==
    LET Clean(v, p) ==
            LET new_fb == v.dev.planes[p].state.fb
                r == FbRef(v, new_fb)
                u == FbUnref(r, v.dev.planes[p].old_fb)
            IN  IF ret = 0
                THEN [u EXCEPT !.dev.planes[p].fb = new_fb,
                               !.dev.planes[p].crtc = v.dev.planes[p].state.crtc,
                               !.dev.planes[p].old_fb = 0]
                ELSE [v EXCEPT !.dev.planes[p].old_fb = 0]
    IN  ForEach(Clean, w, plane_mask)


(* ---------------------------------------------------------------------- *)
(* The request.                                                            *)
(* ---------------------------------------------------------------------- *)
SeqsUpTo(S, n) == UNION {[1 .. k -> S] : k \in 0 .. n}

\* the (property, value) pairs a request may carry for an object
PropVals(obj) ==
    IF obj[1] = "plane"
    THEN ({"CRTC_ID"} \X ({0} \cup Crtcs)) \cup ({"FB_ID"} \X {0, 1})
    ELSE IF obj[1] = "crtc"
    THEN ({"ACTIVE"} \X {0, 1}) \cup ({"OUT_FENCE_PTR"} \X {0, obj[2]})
    ELSE IF obj[1] = "connector"
    THEN ({"CRTC_ID"} \X ({0} \cup Crtcs)) \cup {<<"DPMS", 0>>}
    ELSE {}

\* an object id that names no mode object
NoObject == <<"none", 0>>


\* user locations that out-fence pointers may name
UserAddrs == Crtcs

(* ---------------------------------------------------------------------- *)
(* Initial state.                                                          *)
(* ---------------------------------------------------------------------- *)
\* the locals as the retry label sets them
RetryLocals ==
    [i |-> 0, j |-> 0, plane_mask |-> {}, fence_state |-> <<>>,
     num_fences |-> 0, ret |-> 0]

\* the device before the call: CRTC 1 lit, with plane 1 showing framebuffer 1
\* and connector 1 routed to it; CRTC 2 and plane 2 off
InitDev ==
    [crtcs |-> [c \in Crtcs |->
                   [state |-> IF c = 1
                              THEN [NoCrtcState EXCEPT !.enable = TRUE,
                                       !.active = TRUE, !.mode_blob = 1,
                                       !.mode = BlobInfo(1).mode,
                                       !.plane_mask = {1},
                                       !.connector_mask = {1},
                                       !.gamma_lut = 2]
                              ELSE NoCrtcState]],
     planes |-> [p \in Planes |->
                    IF p = 1
                    THEN [state |-> [NoPlaneState EXCEPT !.crtc = 1,
                                                         !.fb = 1],
                          fb |-> 1, crtc |-> 1, old_fb |-> 0]
                    ELSE [state |-> NoPlaneState, fb |-> 0, crtc |-> 0,
                          old_fb |-> 0]],
     connectors |-> [k \in Connectors |->
                        [state |-> [NoConnectorState EXCEPT !.crtc = 1],
                         refcount |-> 2]],
     fbref |-> [f \in Fbs |-> 3],
     blobref |-> [b \in Blobs |-> 2],
     funcs |-> [crtc |-> TRUE, plane |-> TRUE, connector |-> TRUE]]

InitLog ==
    [ndeadlock |-> 0, nbackoff |-> 0, ndrop |-> 0, ninit |-> 0, nfini |-> 0,
     nclear |-> 0, nretry |-> 0,
     got |-> [k \in ObjKeys |-> {}],
     ngot |-> [k \in ObjKeys |-> 0],
     touched |-> {},
     dupcalls |-> [k \in ObjKeys |-> 0],
     dups |-> [k \in ObjKeys |-> 0],
     snaps |-> <<>>, events |-> <<>>, commit_calls |-> <<>>,
     check_rets |-> <<>>, ext_calls |-> <<>>, hook_calls |-> 0,
     released |-> [ioctl |-> 0, hook |-> 0], owner |-> "none",
     freed_fbs |-> {}]

Init ==
    /\ pc = "idle"
    /\ arg = [flags |-> {}]
    /\ req = [groups |-> <<>>, closed |-> FALSE]
    /\ local = RetryLocals
    /\ state = NoTransaction
    /\ dev = InitDev
    /\ ctx = [held |-> {}, contended |-> <<>>]
    /\ user = [mem |-> [a \in UserAddrs |-> 0], fds |-> <<>>]
    /\ log = InitLog

(* ---------------------------------------------------------------------- *)
(* drm_mode_atomic_ioctl, step by step.                                    *)
(* ---------------------------------------------------------------------- *)
Done(w, ret) == [w EXCEPT !.pc = "done", !.local.ret = ret, !.fail = 0]

GotoOut(w, ret) == [w EXCEPT !.pc = "out", !.local.ret = ret, !.fail = 0]

\* flag checks, drm_modeset_acquire_init, drm_atomic_state_alloc
IoctlEnterOp(w, flags) ==
    LET Allocated(a) ==
            IF ~a.ok THEN Done(a.w, -ENOMEM)
            ELSE [a.w EXCEPT
                      !.state.allow_modeset = ("ALLOW_MODESET" \in flags),
                      !.log.owner = "ioctl",
                      !.local = RetryLocals,
                      !.pc = "assemble",
                      !.fail = 0]
    IN  IF "TEST_ONLY" \in flags /\ "PAGE_FLIP_EVENT" \in flags
        THEN Done([w EXCEPT !.arg.flags = flags], -EINVAL)
        ELSE Allocated(drm_atomic_state_alloc(
                           [w EXCEPT !.arg.flags = flags,
                                     !.log.ninit = @ + 1]))

IoctlEnter ==
    /\ pc = "idle"
    /\ \E flags \in FlagSets, n \in 0 .. 3 :
           Becomes(IoctlEnterOp(World(n), flags))

\* mutant: a touched plane is remembered for test-only requests as well
Mut_EndGroup(w, g) ==
    LET p == g.obj[2]
        m == IF g.obj[1] = "plane" /\ Len(g.props) > 0
             THEN [w EXCEPT !.local.plane_mask = @ \cup {p},
                            !.dev.planes[p].old_fb = w.dev.planes[p].fb]
             ELSE w
    IN  [m EXCEPT !.local.i = @ + 1, !.local.j = 0, !.pc = "assemble",
                  !.fail = 0]

\* end of one object group: remember a touched plane, next object
EndGroup(w, g) ==
    LET p == g.obj[2]
        m == IF g.obj[1] = "plane" /\ Len(g.props) > 0
                 /\ "TEST_ONLY" \notin w.arg.flags
             THEN [w EXCEPT !.local.plane_mask = @ \cup {p},
                            !.dev.planes[p].old_fb = w.dev.planes[p].fb]
             ELSE w
    IN  [m EXCEPT !.local.i = @ + 1, !.local.j = 0, !.pc = "assemble",
                  !.fail = 0]

\* get_user of the object id and the property count, object lookup
ReadObjOp(w, g) ==
    LET r == [w EXCEPT !.req.groups =
                           IF w.local.i < Len(@) THEN @ ELSE Append(@, g)]
    IN  IF g.obj = NoObject THEN GotoOut(r, -ENOENT)
        ELSE IF Len(g.props) = 0 THEN EndGroup(r, g)
        ELSE [r EXCEPT !.pc = "props", !.local.j = 0, !.fail = 0]

ReadObj ==
    /\ pc = "assemble"
    /\ \/ /\ local.i < Len(req.groups)
          /\ Becomes(ReadObjOp(World(0), req.groups[local.i + 1]))
       \/ /\ local.i = Len(req.groups)
          /\ ~req.closed
          /\ local.i < MaxObjs
          /\ \E g \in UNION {[obj : {o},
                                props : SeqsUpTo(PropVals(o), MaxProps)] :
                                   o \in ObjKeys \cup {NoObject}} :
                 Becomes(ReadObjOp(World(0), g))

\* one property of the current object: lookup, atomic_set_prop
SetPropOp(w) ==
    LET g == w.req.groups[w.local.i + 1]
        pv == g.props[w.local.j + 1]
        NextProp(n) == IF n.local.j = Len(g.props) THEN EndGroup(n, g) ELSE n
        Set(r) ==
            IF r.ret # 0 THEN GotoOut(r.w, r.ret)
            ELSE NextProp([r.w EXCEPT !.local.j = @ + 1, !.fail = 0])
    IN  Set(atomic_set_prop(w, g.obj, pv[1], pv[2]))

SetProp ==
    /\ pc = "props"
    /\ \E n \in FailPoints : Becomes(SetPropOp(World(n)))

\* the object loop ends after arg->count_objs objects
EndOfList ==
    /\ pc = "assemble"
    /\ local.i = Len(req.groups)
    /\ Becomes([World(0) EXCEPT !.req.closed = TRUE, !.pc = "prepare"])

PrepareOp(w) ==
    LET Prepared(r) ==
            IF r.ret # 0 THEN GotoOut(r.w, r.ret)
            ELSE [r.w EXCEPT !.pc = "commit", !.fail = 0]
    IN  Prepared(prepare_crtc_signaling(w))

Prepare ==
    /\ pc = "prepare"
    /\ \E n \in FailPoints : Becomes(PrepareOp(World(n)))

CommitOp(w) ==
    LET Returned(r) == GotoOut(r.w, r.ret)
    IN  Returned(IF "TEST_ONLY" \in w.arg.flags THEN drm_atomic_check_only(w)
                 ELSE IF "NONBLOCK" \in w.arg.flags
                 THEN drm_atomic_nonblocking_commit(w)
                 ELSE drm_atomic_commit(w))

Commit ==
    /\ pc = "commit"
    /\ \E n \in 0 .. 2 : Becomes(CommitOp(World(n)))

\* the out label up to the retry test
OutOp(w) ==
    complete_crtc_signaling(
        drm_atomic_clean_old_fb(w, w.local.plane_mask, w.local.ret),
        w.local.ret = 0)

\* mutant: the retry backs off without clearing the transaction
Mut_IoctlRetryOp(w) ==
    [drm_modeset_backoff(OutOp(w)) EXCEPT
         !.local = RetryLocals, !.pc = "assemble", !.log.nretry = @ + 1]

\* ret == -EDEADLK: clear, back off, goto retry
IoctlRetryOp(w) ==
    [drm_modeset_backoff(drm_atomic_state_clear(OutOp(w))) EXCEPT
         !.local = RetryLocals, !.pc = "assemble", !.log.nretry = @ + 1]

IoctlRetry ==
    /\ pc = "out"
    /\ local.ret = -EDEADLK
    /\ Becomes(IoctlRetryOp(World(0)))

\* mutant: the ioctl frees the transaction on every return path
Mut_IoctlReturnOp(w) ==
    [drm_modeset_drop_locks(drm_atomic_state_free(OutOp(w), "ioctl")) EXCEPT
         !.log.nfini = @ + 1, !.pc = "done"]

\* free on error or test-only, drop the locks, return
IoctlReturnOp(w) ==
    LET Freed(o) ==
            IF w.local.ret # 0 \/ "TEST_ONLY" \in w.arg.flags
            THEN drm_atomic_state_free(o, "ioctl")
            ELSE o
    IN  [drm_modeset_drop_locks(Freed(OutOp(w))) EXCEPT
             !.log.nfini = @ + 1, !.pc = "done"]

IoctlReturn ==
    /\ pc = "out"
    /\ local.ret # -EDEADLK
    /\ Becomes(IoctlReturnOp(World(0)))

\* the worker of a nonblocking commit releases the transaction
CommitWork ==
    /\ log.owner = "hook"
    /\ state.allocated
    /\ Becomes(drm_atomic_state_free(World(0), "hook"))

Next ==
    \/ IoctlEnter
    \/ ReadObj
    \/ SetProp
    \/ EndOfList
    \/ Prepare
    \/ Commit
    \/ IoctlRetry
    \/ IoctlReturn
    \/ CommitWork

Spec == Init /\ [][Next]_vars

(* ---------------------------------------------------------------------- *)
(* drm_atomic_check_only called repeatedly on an assembled transaction.    *)
(* ---------------------------------------------------------------------- *)
CheckOnly ==
    /\ pc = "commit"
    /\ Len(log.check_rets) < MaxChecks
    /\ Becomes(drm_atomic_check_only(World(0)).w)


CheckSpec ==
    /\ Init
    /\ [][
           \/ IoctlEnter
           \/ ReadObj
           \/ SetProp
           \/ EndOfList
           \/ Prepare
           \/ CheckOnly
       ]_vars


(* ---------------------------------------------------------------------- *)
(* The add-affected helpers, called by a driver between the assembly and   *)
(* the commit; an error of a helper is the result of the driver's check.   *)
(* ---------------------------------------------------------------------- *)
\* the get-or-create of each object of S in increasing order, up to the
\* first that fails
RECURSIVE GetEach(_, _, _)
GetEach(w, kind, S) ==
    LET Got(r, x) ==
            IF r.ret # 0 THEN [w |-> r.w, ret |-> r.ret]
            ELSE GetEach(r.w, kind, S \ {x})
        Get(x) ==
            Got(IF kind = "connector"
                THEN drm_atomic_get_connector_state(w, x)
                ELSE drm_atomic_get_plane_state(w, x),
                x)
    IN  IF S = {} THEN [w |-> w, ret |-> 0]
        ELSE Get(CHOOSE y \in S : \A z \in S : y <= z)

\* mutant: the helper backs off itself when the lock signals Deadlock
Mut_add_affected_connectors(w, crtc) ==
    LET Locked(l) ==
            IF l.ret = -EDEADLK
            THEN [w |-> drm_modeset_backoff(l.w), ret |-> l.ret]
            ELSE IF l.ret # 0 THEN [w |-> l.w, ret |-> l.ret]
            ELSE GetEach(l.w, "connector",
                         {k \in Connectors :
                              l.w.dev.connectors[k].state.crtc = crtc})
    IN  Locked(drm_modeset_lock(w, ConnectionLock))

drm_atomic_add_affected_connectors(w, crtc) ==
    LET Locked(l) ==
            IF l.ret # 0 THEN [w |-> l.w, ret |-> l.ret]
            ELSE GetEach(l.w, "connector",
                         {k \in Connectors :
                              l.w.dev.connectors[k].state.crtc = crtc})
    IN  Locked(drm_modeset_lock(w, ConnectionLock))

drm_atomic_add_affected_planes(w, crtc) ==
    GetEach(w, "plane", w.dev.crtcs[crtc].state.plane_mask)

\* the planes and connectors that the CRTC uses now and that the transaction
\* does not hold yet
Unaffected(w, crtc) ==
    {<<"plane", p>> : p \in {q \in w.dev.crtcs[crtc].state.plane_mask :
                                 w.state.planes[q].ptr = 0}}
        \cup {<<"connector", k>> :
                  k \in {j \in Connectors :
                             /\ w.dev.connectors[j].state.crtc = crtc
                             /\ w.state.connectors[j].ptr = 0}}

AddAffectedOp(w, crtc, kind) ==
    LET Added(r) ==
            IF r.ret # 0 THEN GotoOut(r.w, r.ret)
            ELSE [r.w EXCEPT !.fail = 0]
    IN  Added(IF kind = "connector"
              THEN drm_atomic_add_affected_connectors(w, crtc)
              ELSE drm_atomic_add_affected_planes(w, crtc))

AddAffected ==
    /\ pc = "commit"
    /\ \E crtc \in CrtcsInState(World(0)) :
           \E kind \in {k[1] : k \in Unaffected(World(0), crtc)} :
               \E n \in 0 .. 4 : Becomes(AddAffectedOp(World(n), crtc, kind))


AffectedSpec ==
    /\ Init
    /\ [][
           \/ IoctlEnter
           \/ ReadObj
           \/ SetProp
           \/ EndOfList
           \/ Prepare
           \/ AddAffected
           \/ Commit
           \/ IoctlRetry
           \/ IoctlReturn
           \/ CommitWork
       ]_vars

(* ---------------------------------------------------------------------- *)
(* drm_atomic_legacy_backoff, called by a legacy entry point: dev holds    *)
(* the acquire_ctx pointers of the CRTCs and of the mode configuration,    *)
(* req the values they had at the call.                                    *)
(* ---------------------------------------------------------------------- *)
\* An acquire_ctx pointer points to the context of the transaction, to the
\* context of another task, or is NULL.

AllLocks ==
    {ConnectionLock} \cup {CrtcLock(c) : c \in Crtcs}
        \cup {PlaneLock(p) : p \in Planes}

\* drm_modeset_lock on each lock of S in increasing order of the object,
\* up to the first that fails
RECURSIVE LockEach(_, _)
LockEach(w, S) ==
    LET Locked(l, x) ==
            IF l.ret # 0 THEN l ELSE LockEach(l.w, S \ {x})
        Lock(x) == Locked(drm_modeset_lock(w, x), x)
    IN  IF S = {} THEN [w |-> w, ret |-> 0]
        ELSE Lock(CHOOSE y \in S : \A z \in S : y[2] <= z[2])

\* connection_mutex, then every crtc->mutex, then every plane->mutex
drm_modeset_lock_all_ctx(w) ==
    LET Planes_(l) ==
            IF l.ret # 0 THEN l
            ELSE LockEach(l.w, {PlaneLock(p) : p \in Planes})
        Crtcs_(l) ==
            IF l.ret # 0 THEN l
            ELSE Planes_(LockEach(l.w, {CrtcLock(c) : c \in Crtcs}))
    IN  Crtcs_(drm_modeset_lock(w, ConnectionLock))

\* the part before the retry label: the pointers to the context are
\* remembered and reset
LegacyCollectOp(w) ==
    [w EXCEPT
        !.local.crtc_mask = {c \in Crtcs : w.dev.acquire_ctx[c] = "ctx"},
        !.local.global = (w.dev.mode_config_acquire_ctx = "ctx"),
        !.dev.acquire_ctx =
            [c \in Crtcs |-> IF @[c] = "ctx" THEN "NULL" ELSE @[c]],
        !.dev.mode_config_acquire_ctx = IF @ = "ctx" THEN "NULL" ELSE @,
        !.pc = "retry"]

\* mutant: the pointers of the CRTCs are not restored
Mut_LegacyRestoreOp(w) ==
    [w EXCEPT
        !.dev.mode_config_acquire_ctx = IF w.local.global THEN "ctx" ELSE @,
        !.pc = "done", !.fail = 0]

\* the part after a lock-all that succeeded
LegacyRestoreOp(w) ==
    [w EXCEPT
        !.dev.acquire_ctx =
            [c \in Crtcs |-> IF c \in w.local.crtc_mask THEN "ctx" ELSE @[c]],
        !.dev.mode_config_acquire_ctx = IF w.local.global THEN "ctx" ELSE @,
        !.pc = "done", !.fail = 0]

\* one pass from the retry label: backoff, lock-all, and goto retry when
\* that failed
LegacyRetryOp(w) ==
    LET Locked(l) ==
            IF l.ret # 0 THEN [l.w EXCEPT !.local.ret = l.ret, !.fail = 0]
            ELSE LegacyRestoreOp([l.w EXCEPT !.local.ret = 0])
    IN  Locked(drm_modeset_lock_all_ctx(drm_modeset_backoff(w)))

LegacyInit ==
    /\ pc = "collect"
    /\ arg = [flags |-> {}]
    /\ \E f \in [Crtcs -> {"ctx", "other", "NULL"}],
          g \in {"ctx", "other", "NULL"} :
           /\ req = [acquire_ctx |-> f, mode_config_acquire_ctx |-> g]
           /\ dev = [acquire_ctx |-> f, mode_config_acquire_ctx |-> g]
    /\ local = [crtc_mask |-> {}, global |-> FALSE, ret |-> 0]
    /\ state = [NoTransaction EXCEPT !.allocated = TRUE]
    /\ \E held \in SUBSET AllLocks, contended \in {<<>>} \cup AllLocks :
           /\ contended \notin held
           /\ ctx = [held |-> held, contended |-> contended]
    /\ user = [mem |-> [a \in UserAddrs |-> 0], fds |-> <<>>]
    /\ log = InitLog

LegacyCollect ==
    /\ pc = "collect"
    /\ Becomes(LegacyCollectOp(World(0)))

LegacyRetry ==
    /\ pc = "retry"
    /\ \E n \in 0 .. Cardinality(AllLocks) :
           Becomes(LegacyRetryOp(World(n)))


LegacySpec ==
    /\ LegacyInit
    /\ [][
           \/ LegacyCollect
           \/ LegacyRetry
       ]_vars

(* ---------------------------------------------------------------------- *)
(* The mode setters on the CRTC snapshots of one transaction: a caller in  *)
(* the kernel (drm_atomic_set_mode_for_crtc, a mode or NULL), a caller     *)
(* with a blob pointer (drm_atomic_set_mode_prop_for_crtc) and the MODE_ID *)
(* property, in any order, each call recorded with its return value.       *)
(* ---------------------------------------------------------------------- *)
\* calls on one transaction
MaxModeCalls == 3

ModeCalled(r, fn, c, val) ==
    [r.w EXCEPT !.req.calls = Append(@, [fn |-> fn, crtc |-> c, arg |-> val,
                                         ret |-> r.ret]),
                !.local.ret = r.ret, !.fail = 0]

ModeInit ==
    /\ pc = "mode"
    /\ arg = [flags |-> {}]
    /\ req = [calls |-> <<>>]
    /\ local = RetryLocals
    /\ state = [NoTransaction EXCEPT !.allocated = TRUE,
                                     !.allow_modeset = TRUE]
    /\ dev = InitDev
    /\ ctx = [held |-> {}, contended |-> <<>>]
    /\ user = [mem |-> [a \in UserAddrs |-> 0], fds |-> <<>>]
    /\ log = InitLog

ModeGet ==
    /\ pc = "mode"
    /\ \E c \in Crtcs :
           /\ state.crtcs[c].ptr = 0
           /\ Becomes(drm_atomic_get_crtc_state(World(0), c).w)

\* a snapshot whose mode_blob is an error pointer is not passed on: the
\* caller that got the error releases the transaction
ModeTarget(c) ==
    /\ pc = "mode"
    /\ Len(req.calls) < MaxModeCalls
    /\ state.crtcs[c].ptr # 0
    /\ state.crtcs[c].state.mode_blob >= 0

\* a caller in the kernel passes display mode 1 or 2, or NULL (0)
ModeSetMode ==
    \E c \in Crtcs, mode \in {0, 1, 2}, n \in 0 .. 1 :
        /\ ModeTarget(c)
        /\ Becomes(ModeCalled(drm_atomic_set_mode_for_crtc(World(n), c, mode),
                              "set_mode_for_crtc", c, mode))

ModeSetProp ==
    \E c \in Crtcs, blob \in {0} \cup Blobs :
        /\ ModeTarget(c)
        /\ Becomes(ModeCalled(
               drm_atomic_set_mode_prop_for_crtc(World(0), c, blob),
               "set_mode_prop_for_crtc", c, blob))

\* MODE_ID: no blob, the blobs of the device, an unknown id
ModeSetId ==
    \E c \in Crtcs, val \in {0, 9} \cup Blobs :
        /\ ModeTarget(c)
        /\ Becomes(ModeCalled(
               drm_atomic_crtc_set_property(World(0), c, "MODE_ID", val),
               "MODE_ID", c, val))


ModeSpec ==
    /\ ModeInit
    /\ [][
           \/ ModeGet
           \/ ModeSetMode
           \/ ModeSetProp
           \/ ModeSetId
       ]_vars

(* ---------------------------------------------------------------------- *)
(* The helpers as a caller in the kernel uses them on one transaction:     *)
(* get-or-create of any object, drm_atomic_set_fb_for_plane and the FB_ID  *)
(* property on a plane snapshot, in any order, each call recorded with its *)
(* return value, while other holders of a framebuffer drop their           *)
(* references.                                                             *)
(* ---------------------------------------------------------------------- *)
\* calls on one transaction
MaxHelperCalls == 3

HelperInit ==
    /\ pc = "helper"
    /\ arg = [flags |-> {}, dropped |-> [f \in Fbs |-> 0]]
    /\ req = [calls |-> <<>>]
    /\ local = RetryLocals
    /\ state = [NoTransaction EXCEPT !.allocated = TRUE,
                                     !.allow_modeset = TRUE]
    /\ dev = InitDev
    /\ ctx = [held |-> {}, contended |-> <<>>]
    /\ user = [mem |-> [a \in UserAddrs |-> 0], fds |-> <<>>]
    /\ log = InitLog

\* a caller that got Deadlock makes no further call before it backs off;
\* a framebuffer that was freed has no id and nobody holds a pointer to it
HelperGet ==
    /\ pc = "helper"
    /\ Len(req.calls) < MaxHelperCalls
    /\ ctx.contended = <<>>
    /\ \E k \in ObjKeys, n \in 0 .. 4 :
           Becomes(ModeCalled(
               IF k[1] = "crtc"
               THEN [w |-> drm_atomic_get_crtc_state(World(n), k[2]).w,
                     ret |-> drm_atomic_get_crtc_state(World(n), k[2]).ret]
               ELSE GetEach(World(n), k[1], {k[2]}),
               "get_state", k, 0))

HelperSetFb ==
    /\ pc = "helper"
    /\ Len(req.calls) < MaxHelperCalls
    /\ \E p \in Planes, fb \in {0} \cup Fbs :
           /\ state.planes[p].ptr # 0
           /\ fb \notin log.freed_fbs
           /\ Becomes(ModeCalled(
                  [w |-> drm_atomic_set_fb_for_plane(World(0), p, fb),
                   ret |-> 0],
                  "set_fb_for_plane", <<"plane", p>>, fb))

HelperSetFbId ==
    /\ pc = "helper"
    /\ Len(req.calls) < MaxHelperCalls
    /\ \E p \in Planes, val \in {0, 9} \cup Fbs :
           /\ state.planes[p].ptr # 0
           /\ val \notin log.freed_fbs
           /\ Becomes(ModeCalled(
                  drm_atomic_plane_set_property(World(0), p, "FB_ID", val),
                  "FB_ID", <<"plane", p>>, val))

\* a holder other than the snapshots, the current plane states and the
\* legacy plane->fb pointers drops its reference
HelperDropFb ==
    /\ pc = "helper"
    /\ \E fb \in Fbs :
           /\ arg.dropped[fb] < InitDev.fbref[fb]
                  - Cardinality({p \in Planes : InitDev.planes[p].state.fb = fb})
                  - Cardinality({p \in Planes : InitDev.planes[p].fb = fb})
           /\ Becomes([FbUnref(World(0), fb) EXCEPT
                           !.arg.dropped[fb] = @ + 1])


HelperSpec ==
    /\ HelperInit
    /\ [][
           \/ HelperGet
           \/ HelperSetFb
           \/ HelperSetFbId
           \/ HelperDropFb
       ]_vars

(* ---------------------------------------------------------------------- *)
(* The thermal throttle worker: dev is the thermal_drv with its zones      *)
(* (trip temperatures in increasing order) and the values of the last run. *)
(* ---------------------------------------------------------------------- *)
\* the number of cores whose temperatures are summed
NR_CPUS == 8

\* one run: the CPU temperatures are summed, the GPU temperature selects
\* what is added before the division, the hottest zone that trips is chosen
thermal_throttle_worker(w, temp_total, temp_gpu) ==
    LET temp_avg ==
            IF temp_gpu >= 63000 THEN (temp_total + 35000) \div NR_CPUS
            ELSE IF temp_gpu >= 65000 THEN (temp_total + 55000) \div NR_CPUS
            ELSE IF temp_gpu >= 68000 THEN (temp_total + 65000) \div NR_CPUS
            ELSE IF temp_gpu >= 70000
            THEN (temp_total + temp_gpu) \div NR_CPUS
            ELSE temp_total \div NR_CPUS
        tripped == {i \in 1 .. Len(w.dev.zones) : temp_avg >= w.dev.zones[i]}
        new_zone == IF tripped = {} THEN 0
                    ELSE CHOOSE i \in tripped : \A j \in tripped : j <= i
    IN  [w EXCEPT !.dev.temp_total = temp_total, !.dev.temp_gpu = temp_gpu,
                  !.dev.temp_avg = temp_avg, !.dev.curr_zone = new_zone,
                  !.dev.ran = TRUE]

ThermalInit ==
    /\ pc = "thermal"
    /\ arg = [flags |-> {}]
    /\ req = [groups |-> <<>>, closed |-> FALSE]
    /\ local = RetryLocals
    /\ state = NoTransaction
    /\ dev = [zones |-> <<45000, 55000, 65000>>, curr_zone |-> 0,
              temp_total |-> 0, temp_gpu |-> 0, temp_avg |-> 0, ran |-> FALSE]
    /\ ctx = [held |-> {}, contended |-> <<>>]
    /\ user = [mem |-> [a \in UserAddrs |-> 0], fds |-> <<>>]
    /\ log = InitLog

\* the delayed work runs; every core reports the same temperature
ThermalWork ==
    /\ pc = "thermal"
    /\ \E cpu \in {30000 + 5000 * i : i \in 0 .. 10},
          gpu \in {50000, 62999, 63000, 64999, 65000, 67999, 68000, 69999,
                   70000, 80000} :
           Becomes(thermal_throttle_worker(World(0), NR_CPUS * cpu, gpu))

ThermalSpec == ThermalInit /\ [][ThermalWork]_vars

(* ---------------------------------------------------------------------- *)
(* The CPU input boost driver.  dev is the boost_drv with the kernel's     *)
(* jiffies: state is the set of bits, pending the works and delayed works  *)
(* that are queued, unboost_delay the delay max_unboost was last queued    *)
(* with.  local.thr holds the callers (kicks, display notifier), local.wrk *)
(* the position of the two boost workers.  An unboost worker is one atomic *)
(* step; its timer fires at any time while it is pending.  log.expiry_durs *)
(* is the duration of the kick that stored max_boost_expires (of each such *)
(* kick, when several stored the same value).                              *)
(* ---------------------------------------------------------------------- *)
\* calls of the entry points, and ticks of jiffies, in one behaviour
MaxBoostCalls == 3
MaxJiffies == 1

\* the tasks that call into the driver
Threads == {1, 2}

\* four milliseconds to the jiffy, rounded up
msecs_to_jiffies(ms) == (ms + 3) \div 4

\* a plain store in place of the compare-and-exchange
Mut_atomic64_cmpxchg(v, old, new) == new

\* the value v holds after atomic64_cmpxchg(&v, old, new)
atomic64_cmpxchg(v, old, new) == IF v = old THEN new ELSE v

BoostInit ==
    /\ pc = "boost"
    /\ arg = [flags |-> {}]
    /\ req = [groups |-> <<>>, closed |-> FALSE]
    /\ state = NoTransaction
    /\ ctx = [held |-> {}, contended |-> <<>>]
    /\ user = [mem |-> [a \in UserAddrs |-> 0], fds |-> <<>>]
    /\ dev = [state |-> {"SCREEN_AWAKE"}, max_boost_expires |-> 0,
              max_boost_dur |-> 0, pending |-> {}, unboost_delay |-> 0,
              jiffies |-> 0]
    /\ local = [thr |-> [t \in Threads |->
                            [call |-> "none", pc |-> "ret", dur |-> 0,
                             curr |-> 0, new |-> 0, skipped |-> FALSE]],
                wrk |-> [input_boost |-> "idle", max_boost |-> "idle"],
                ncalls |-> 0]
    /\ log = [expiry_durs |-> {0}]

\* a task enters the driver: cpu_input_boost_kick_max with a duration, the
\* display notifier with an early blank event (UNBLANK sets SCREEN_AWAKE and
\* kicks with the wake duration, 8 ms here), an input event, which queues
\* the input boost while the screen is awake and returns, or
\* cpu_input_boost_kick, which queues it in any case.  The display delivers
\* its events one at a time.
InNotifier(t) ==
    local.thr[t].call \in {"blank", "unblank"} /\ local.thr[t].pc # "ret"

BoostCall ==
    /\ pc = "boost"
    /\ local.ncalls < MaxBoostCalls
    /\ \E t \in Threads :
           /\ local.thr[t].pc = "ret"
           /\ \/ \E ms \in {4, 8} :
                     /\ local' = [local EXCEPT
                            !.ncalls = @ + 1,
                            !.thr[t] = [call |-> "kick_max", pc |-> "read",
                                        dur |-> ms, curr |-> 0, new |-> 0,
                                        skipped |-> FALSE]]
                     /\ dev' = dev
              \/ /\ \A o \in Threads : ~InNotifier(o)
                 /\ local' = [local EXCEPT
                         !.ncalls = @ + 1,
                         !.thr[t] = [call |-> "unblank", pc |-> "read",
                                     dur |-> 8, curr |-> 0, new |-> 0,
                                     skipped |-> FALSE]]
                 /\ dev' = [dev EXCEPT !.state = @ \cup {"SCREEN_AWAKE"}]
              \/ /\ \A o \in Threads : ~InNotifier(o)
                 /\ local' = [local EXCEPT
                         !.ncalls = @ + 1,
                         !.thr[t] = [call |-> "blank", pc |-> "cancel_input",
                                     dur |-> 0, curr |-> 0, new |-> 0,
                                     skipped |-> FALSE]]
                 /\ dev' = [dev EXCEPT !.state = @ \ {"SCREEN_AWAKE"}]
              \/ /\ local' = [local EXCEPT
                         !.ncalls = @ + 1,
                         !.thr[t] = [call |-> "input_event", pc |-> "ret",
                                     dur |-> 0, curr |-> 0, new |-> 0,
                                     skipped |-> FALSE]]
                 /\ dev' = [dev EXCEPT
                         !.pending = IF "SCREEN_AWAKE" \in dev.state
                                     THEN @ \cup {"input_boost"} ELSE @]
              \/ /\ local' = [local EXCEPT
                         !.ncalls = @ + 1,
                         !.thr[t] = [call |-> "kick", pc |-> "ret",
                                     dur |-> 0, curr |-> 0, new |-> 0,
                                     skipped |-> FALSE]]
                 /\ dev' = [dev EXCEPT !.pending = @ \cup {"input_boost"}]
    /\ UNCHANGED log
    /\ UNCHANGED <<pc, arg, req, state, ctx, user>>

Tick ==
    /\ pc = "boost"
    /\ dev.jiffies < MaxJiffies
    /\ dev' = [dev EXCEPT !.jiffies = @ + 1]
    /\ UNCHANGED <<local, log>>
    /\ UNCHANGED <<pc, arg, req, state, ctx, user>>

\* one step of a kick: read and compare, compare-and-exchange, atomic_set
\* of the duration, queue_work
cpu_input_boost_kick_max ==
    /\ pc = "boost"
    /\ \E t \in Threads :
           LET thr == local.thr[t]
               new_expires == dev.jiffies + msecs_to_jiffies(thr.dur)
           IN  /\ thr.pc \in {"read", "cmpxchg", "set_dur", "queue"}
               /\ IF thr.pc = "read"
                  THEN /\ local' = [local EXCEPT
                              !.thr[t].curr = dev.max_boost_expires,
                              !.thr[t].new = new_expires,
                              !.thr[t].skipped =
                                  (dev.max_boost_expires > new_expires),
                              !.thr[t].pc =
                                  IF dev.max_boost_expires > new_expires
                                  THEN "ret" ELSE "cmpxchg"]
                       /\ UNCHANGED <<dev, log>>
                  ELSE IF thr.pc = "cmpxchg"
                  THEN /\ dev' = [dev EXCEPT !.max_boost_expires =
                              atomic64_cmpxchg(@, thr.curr, thr.new)]
                       /\ local' = [local EXCEPT !.thr[t].pc =
                              IF dev.max_boost_expires = thr.curr
                              THEN "set_dur" ELSE "read"]
                       /\ log' = [log EXCEPT !.expiry_durs =
                              IF dev.max_boost_expires # thr.curr THEN @
                              ELSE IF thr.new = dev.max_boost_expires
                              THEN @ \cup {thr.dur} ELSE {thr.dur}]
                  ELSE IF thr.pc = "set_dur"
                  THEN /\ dev' = [dev EXCEPT !.max_boost_dur = thr.dur]
                       /\ local' = [local EXCEPT !.thr[t].pc = "queue"]
                       /\ UNCHANGED log
                  ELSE /\ dev' = [dev EXCEPT
                                     !.pending = @ \cup {"max_boost"}]
                       /\ local' = [local EXCEPT !.thr[t].pc = "ret"]
                       /\ UNCHANGED log
    /\ UNCHANGED <<pc, arg, req, state, ctx, user>>

\* the screen-off branch after clear_boost_bit(SCREEN_AWAKE):
\* unboost_all_cpus cancels input_unboost, and max_unboost only when that
\* was not pending; it clears the bits when either cancel found its work
msm_drm_notifier_cb ==
    /\ pc = "boost"
    /\ \E t \in Threads :
           LET thr == local.thr[t]
           IN  /\ thr.pc \in {"cancel_input", "cancel_max", "clear"}
               /\ IF thr.pc = "cancel_input"
                  THEN /\ dev' = [dev EXCEPT
                                     !.pending = @ \ {"input_unboost"}]
                       /\ local' = [local EXCEPT !.thr[t].pc =
                              IF "input_unboost" \in dev.pending
                              THEN "clear" ELSE "cancel_max"]
                  ELSE IF thr.pc = "cancel_max"
                  THEN /\ dev' = [dev EXCEPT
                                     !.pending = @ \ {"max_unboost"}]
                       /\ local' = [local EXCEPT !.thr[t].pc =
                              IF "max_unboost" \in dev.pending
                              THEN "clear" ELSE "ret"]
                  ELSE /\ dev' = [dev EXCEPT !.state =
                              @ \ {"INPUT_BOOST", "WAKE_BOOST", "MAX_BOOST"}]
                       /\ local' = [local EXCEPT !.thr[t].pc = "ret"]
    /\ UNCHANGED log
    /\ UNCHANGED <<pc, arg, req, state, ctx, user>>

\* a worker that does not queue again the unboost it cancelled
Mut_BoostWorker(work, unboost, bit) ==
    /\ pc = "boost"
    /\ LET at == local.wrk[work]
       IN  IF at = "idle"
           THEN /\ work \in dev.pending
                /\ dev' = [dev EXCEPT !.pending = @ \ {work}]
                /\ local' = [local EXCEPT !.wrk[work] = "cancel"]
           ELSE IF at = "cancel"
           THEN /\ dev' = [dev EXCEPT !.pending = @ \ {unboost}]
                /\ local' = [local EXCEPT !.wrk[work] =
                       IF unboost \in dev.pending THEN "requeue" ELSE "set_bit"]
           ELSE IF at = "set_bit"
           THEN /\ dev' = [dev EXCEPT !.state = @ \cup {bit}]
                /\ local' = [local EXCEPT !.wrk[work] = "queue"]
           ELSE /\ dev' = [dev EXCEPT
                       !.pending = IF at = "requeue" THEN @
                                   ELSE @ \cup {unboost},
                       !.unboost_delay =
                           IF unboost = "max_unboost"
                               /\ unboost \notin dev.pending
                           THEN msecs_to_jiffies(dev.max_boost_dur) ELSE @]
                /\ local' = [local EXCEPT !.wrk[work] = "idle"]
    /\ UNCHANGED log
    /\ UNCHANGED <<pc, arg, req, state, ctx, user>>

\* one step of a boost worker: start, cancel_delayed_work_sync of its
\* unboost, set_boost_bit when that was not pending, queue_delayed_work
BoostWorker(work, unboost, bit) ==
    /\ pc = "boost"
    /\ LET at == local.wrk[work]
       IN  IF at = "idle"
           THEN /\ work \in dev.pending
                /\ dev' = [dev EXCEPT !.pending = @ \ {work}]
                /\ local' = [local EXCEPT !.wrk[work] = "cancel"]
           ELSE IF at = "cancel"
           THEN /\ dev' = [dev EXCEPT !.pending = @ \ {unboost}]
                /\ local' = [local EXCEPT !.wrk[work] =
                       IF unboost \in dev.pending THEN "requeue" ELSE "set_bit"]
           ELSE IF at = "set_bit"
           THEN /\ dev' = [dev EXCEPT !.state = @ \cup {bit}]
                /\ local' = [local EXCEPT !.wrk[work] = "queue"]
           ELSE /\ dev' = [dev EXCEPT
                       !.pending = @ \cup {unboost},
                       !.unboost_delay =
                           IF unboost = "max_unboost"
                               /\ unboost \notin dev.pending
                           THEN msecs_to_jiffies(dev.max_boost_dur) ELSE @]
                /\ local' = [local EXCEPT !.wrk[work] = "idle"]
    /\ UNCHANGED log
    /\ UNCHANGED <<pc, arg, req, state, ctx, user>>

input_boost_worker == BoostWorker("input_boost", "input_unboost", "INPUT_BOOST")

max_boost_worker == BoostWorker("max_boost", "max_unboost", "MAX_BOOST")

\* the timer of input_unboost has fired and the work runs
input_unboost_worker ==
    /\ pc = "boost"
    /\ "input_unboost" \in dev.pending
    /\ dev' = [dev EXCEPT !.pending = @ \ {"input_unboost"},
                          !.state = @ \ {"INPUT_BOOST"}]
    /\ UNCHANGED <<local, log>>
    /\ UNCHANGED <<pc, arg, req, state, ctx, user>>

\* the timer of max_unboost has fired and the work runs
max_unboost_worker ==
    /\ pc = "boost"
    /\ "max_unboost" \in dev.pending
    /\ dev' = [dev EXCEPT !.pending = @ \ {"max_unboost"},
                          !.state = @ \ {"WAKE_BOOST", "MAX_BOOST"}]
    /\ UNCHANGED <<local, log>>
    /\ UNCHANGED <<pc, arg, req, state, ctx, user>>

\* what the scheduler and the workqueue run once it is there
BoostRun ==
    \/ cpu_input_boost_kick_max
    \/ msm_drm_notifier_cb
    \/ input_boost_worker
    \/ input_unboost_worker
    \/ max_boost_worker
    \/ max_unboost_worker


BoostSpec ==
    /\ BoostInit
    /\ [][
           \/ BoostCall
           \/ Tick
           \/ BoostRun
       ]_vars

\* tasks and queued works are run: the workqueue is fair
BoostFairSpec == BoostSpec /\ WF_vars(BoostRun)

(* ---------------------------------------------------------------------- *)
(* The property setters and the checks over the full property set: one     *)
(* attempt without failing primitives, assembled and then checked.         *)
(* ---------------------------------------------------------------------- *)
\* a whole number of pixels in 16.16 fixed point
Fix16(n) == n * 65536

\* the (property, value) pairs of the full property set; 9 names no object,
\* 7 is a descriptor that is no sync file, EXT is a property of the driver
AllPropVals(obj) ==
    IF obj[1] = "plane"
    THEN ({"CRTC_ID", "FB_ID"} \X {0, 1, 2, 9})
             \cup ({"IN_FENCE_FD"} \X {-1, 5, 7})
             \cup ({"SRC_X", "SRC_Y"} \X {Fix16(150)})
             \cup ({"SRC_W", "SRC_H"} \X {Fix16(100), Fix16(300)})
             \cup ({"CRTC_X", "CRTC_Y"} \X {10})
             \cup ({"CRTC_W", "CRTC_H", "rotation", "zpos"} \X {100})
             \cup ({"EXT"} \X {0, 1})
    ELSE IF obj[1] = "crtc"
    THEN ({"ACTIVE"} \X {0, 1}) \cup ({"MODE_ID"} \X {0, 1, 2, 3, 9})
             \cup ({"DEGAMMA_LUT", "GAMMA_LUT"} \X {0, 1, 2, 9})
             \cup ({"CTM"} \X {0, 1, 3, 9})
             \cup ({"OUT_FENCE_PTR"} \X {0, obj[2]})
             \cup ({"EXT"} \X {0, 1})
    ELSE IF obj[1] = "connector"
    THEN ({"CRTC_ID"} \X {0, 1, 2, 9}) \cup {<<"DPMS", 0>>}
             \cup ({"EXT"} \X {0, 1})
    ELSE {}


\* the drivers of the model: with and without atomic_set_property callbacks
PropInit ==
    /\ pc = "idle"
    /\ arg = [flags |-> {}]
    /\ req = [groups |-> <<>>, closed |-> FALSE]
    /\ local = RetryLocals
    /\ state = NoTransaction
    /\ dev \in {[InitDev EXCEPT !.funcs = [crtc |-> b, plane |-> b,
                                           connector |-> b]] :
                    b \in BOOLEAN}
    /\ ctx = [held |-> {}, contended |-> <<>>]
    /\ user = [mem |-> [a \in UserAddrs |-> 0], fds |-> <<>>]
    /\ log = InitLog

PropEnter ==
    /\ pc = "idle"
    /\ \E flags \in {{}, {"ALLOW_MODESET"}, {"PAGE_FLIP_EVENT"}} :
           Becomes(IoctlEnterOp(World(0), flags))

PropReadObj ==
    /\ pc = "assemble"
    /\ local.i = Len(req.groups)
    /\ ~req.closed
    /\ local.i < MaxObjs
    /\ \E g \in UNION {[obj : {o},
                          props : SeqsUpTo(AllPropVals(o), MaxProps)] :
                             o \in ObjKeys \cup {NoObject}} :
           Becomes(ReadObjOp(World(0), g))

PropSetProp ==
    /\ pc = "props"
    /\ Becomes(SetPropOp(World(0)))

PropPrepare ==
    /\ pc = "prepare"
    /\ Becomes(PrepareOp(World(0)))

\* drm_atomic_check_only on the assembled transaction
PropCheck ==
    /\ pc = "commit"
    /\ LET Checked(r) == GotoOut(r.w, r.ret)
       IN  Becomes(Checked(drm_atomic_check_only(World(0))))


PropSpec ==
    /\ PropInit
    /\ [][
           \/ PropEnter
           \/ PropReadObj
           \/ PropSetProp
           \/ EndOfList
           \/ PropPrepare
           \/ PropCheck
       ]_vars

(* ---------------------------------------------------------------------- *)
(* Properties.                                                             *)
(* ---------------------------------------------------------------------- *)
\* the attempt is under way and nothing has failed in it
Assembling == pc \in {"assemble", "props", "prepare", "commit"}

Entry(k) ==
    IF k[1] = "crtc" THEN state.crtcs[k[2]]
    ELSE IF k[1] = "plane" THEN state.planes[k[2]]
    ELSE state.connectors[k[2]]

\* C1: between two clears, every successful get-or-create of an object
\* returns one and the same snapshot, the one its entry holds, and the
\* object's duplicate hook is invoked at most once.
C1_SnapshotStable ==
    \A k \in ObjKeys :
        /\ Cardinality(log.got[k]) <= 1
        /\ log.dupcalls[k] <= 1
        /\ log.got[k] # {} => log.got[k] = {Entry(k).state.id}

\* a CRTC was fetched again after its snapshot had been duplicated
C1_Witness ==
    \E c \in Crtcs :
        /\ log.ngot[<<"crtc", c>>] >= 2
        /\ log.dupcalls[<<"crtc", c>>] = 1
        /\ state.crtcs[c].state.id # 0


Released == log.released.ioctl + log.released.hook

\* C2: a transaction the ioctl allocated is released exactly once: by the
\* commit hook when a non-test commit succeeded (the ioctl then does not
\* free it), by the ioctl when the result is an error or the request was
\* test-only; never by both, whatever number of retries happened.
C2_ReleasedOnce ==
    /\ Released <= 1
    /\ state.allocated <=> (log.owner # "none" /\ Released = 0)
    /\ (pc = "done" /\ log.owner # "none") =>
           IF local.ret = 0 /\ "TEST_ONLY" \notin arg.flags
           THEN /\ log.released.ioctl = 0
                /\ log.owner = "hook"
                /\ log.nclear = log.nretry + log.released.hook
           ELSE /\ log.released.ioctl = 1
                /\ log.released.hook = 0
                /\ log.owner = "ioctl"

\* a commit succeeded after a deadlock retry and the hook released the state
C2_Witness ==
    /\ pc = "done"
    /\ local.ret = 0
    /\ "TEST_ONLY" \notin arg.flags
    /\ log.nretry >= 1
    /\ log.released.hook = 1
    /\ log.released.ioctl = 0

AllEntriesEmpty ==
    /\ \A c \in Crtcs : state.crtcs[c].ptr = 0 /\ state.crtcs[c].state.id = 0
    /\ \A p \in Planes :
           state.planes[p].ptr = 0 /\ state.planes[p].state.id = 0
    /\ \A k \in Connectors :
           state.connectors[k].ptr = 0 /\ state.connectors[k].state.id = 0

\* C3: when drm_atomic_state_default_clear has run, no entry is populated
\* and the destroy hook has been called exactly once for every snapshot
\* that was duplicated into the transaction.
C3_ClearDestroysOnce ==
    [][log.nclear' > log.nclear =>
           /\ AllEntriesEmpty'
           /\ \A key \in DOMAIN log.snaps' : log.snaps'[key] = 1]_vars

\* a clear has destroyed snapshots of a CRTC, a plane and a connector
C3_Witness ==
    /\ log.nclear >= 1
    /\ AllEntriesEmpty
    /\ \E c \in Crtcs, p \in Planes, k \in Connectors :
           /\ SnapKey("crtc", c, 1) \in DOMAIN log.snaps
           /\ SnapKey("plane", p, 1) \in DOMAIN log.snaps
           /\ SnapKey("connector", k, 1) \in DOMAIN log.snaps
           /\ \A key \in DOMAIN log.snaps : log.snaps[key] = 1

\* C4: while an attempt has not failed, the bit of plane P is set in the
\* plane_mask of the snapshot of CRTC C exactly when P's snapshot
\* references C, the referenced CRTC has a snapshot, and the bit of a plane
\* without a snapshot is as in the device's current state.
C4_PlaneMaskSymmetric ==
    Assembling =>
        \A p \in Planes :
            /\ (state.planes[p].ptr # 0 /\ state.planes[p].state.crtc # 0)
                   => state.crtcs[state.planes[p].state.crtc].ptr # 0
            /\ \A c \in CrtcsInState([state |-> state]) :
                   p \in state.crtcs[c].state.plane_mask
                       <=> IF state.planes[p].ptr # 0
                           THEN state.planes[p].state.crtc = c
                           ELSE p \in dev.crtcs[c].state.plane_mask

\* plane 1 has been moved from CRTC 1 to CRTC 2
C4_Witness ==
    /\ Assembling
    /\ dev.planes[1].state.crtc = 1
    /\ state.planes[1].state.crtc = 2
    /\ 1 \in state.crtcs[2].state.plane_mask
    /\ 1 \notin state.crtcs[1].state.plane_mask
    /\ state.crtcs[1].ptr # 0


\* a Deadlock result that the out label has not handled yet
PendingDeadlock == IF pc = "out" /\ local.ret = -EDEADLK THEN 1 ELSE 0

\* the guards of the ioctl's steps: some step of the ioctl can be taken
CanStep ==
    \/ pc \in {"idle", "props", "prepare", "commit", "out"}
    \/ pc = "assemble" /\ local.i <= Len(req.groups)

\* what is left of one attempt, counted in steps
Rank ==
    LET objs == 2 * (MaxObjs - local.i) * (MaxProps + 1)
        work == IF log.owner = "hook" /\ state.allocated THEN 1 ELSE 0
    IN  work + (IF pc = "idle" THEN 12 + 2 * MaxObjs * (MaxProps + 1)
                ELSE IF pc = "assemble" THEN 10 + objs
                ELSE IF pc = "props" THEN 8 + objs - 2 * local.j
                ELSE IF pc = "prepare" THEN 6
                ELSE IF pc = "commit" THEN 4
                ELSE IF pc = "out" THEN 2
                ELSE 0)

\* what is left of the ioctl: the Deadlocks still possible, then the attempt
Measure ==
    (MaxDeadlocks - log.nretry) * (14 + 2 * MaxObjs * (MaxProps + 1)) + Rank

\* C5: every Deadlock result is answered by exactly one clear, one backoff
\* and one restart from the first object of the same request under the
\* same acquire context; Deadlock is never returned; and once contention
\* has stopped the ioctl returns: every step brings the return nearer and
\* the ioctl is never stuck before it.
C5_DeadlockRetry ==
    /\ [](/\ log.ndeadlock = log.nretry + PendingDeadlock
          /\ log.nbackoff = log.nretry
          /\ log.nclear = log.nretry + Released
          /\ log.ninit <= 1
          /\ log.nretry <= MaxDeadlocks
          /\ (pc = "done" => local.ret # -EDEADLK)
          /\ (pc = "done" \/ CanStep))
    /\ [][/\ Measure' < Measure
          /\ Measure' >= 0
          /\ log.nretry' > log.nretry =>
                 /\ local.ret = -EDEADLK
                 /\ log.nretry' = log.nretry + 1
                 /\ local' = RetryLocals
                 /\ pc' = "assemble"
                 /\ AllEntriesEmpty'
                 /\ req' = req]_vars

\* the ioctl has returned after one clear-and-retry cycle
C5_Witness ==
    /\ pc = "done"
    /\ log.ndeadlock = 1
    /\ log.nretry = 1
    /\ log.nbackoff = 1
    /\ Len(req.groups) = 2


\* the result of the latest drm_atomic_check_only
LastCheck == log.check_rets[Len(log.check_rets)]

C7_CommitIffCheckPassed ==
    [][(pc = "commit" /\ "TEST_ONLY" \notin arg.flags) =>
           /\ Len(log.check_rets') = Len(log.check_rets) + 1
           /\ IF LastCheck' # 0
              THEN /\ log.commit_calls' = log.commit_calls
                   /\ local.ret' = LastCheck'
                   /\ state' = state
                   /\ state.allocated
                   /\ log.owner' = "ioctl"
                   /\ Released' = Released
              ELSE log.commit_calls' =
                       Append(log.commit_calls, "NONBLOCK" \in arg.flags)]_vars

\* a commit was refused by the check: no hook call, the state is the caller's
C7_Witness ==
    /\ pc = "out"
    /\ "TEST_ONLY" \notin arg.flags
    /\ Len(log.check_rets) = 1
    /\ LastCheck = -EINVAL
    /\ local.ret = -EINVAL
    /\ log.commit_calls = <<>>
    /\ state.allocated

\* the attempt that made the event is over
AttemptOver(ev) == pc = "done" \/ ev.attempt < log.nretry

\* C8: an event that prepare_crtc_signaling allocated is consumed exactly
\* once: handed to the commit and not freed when its attempt succeeded,
\* freed exactly once when its attempt failed or was retried.
C8_EventConsumedOnce ==
    \A e \in 1 .. Len(log.events) :
        LET ev == log.events[e]
        IN  ev.by = "ioctl" =>
                /\ ev.frees <= 1
                /\ ~(ev.delivered /\ ev.frees > 0)
                /\ AttemptOver(ev) =>
                       IF local.ret = 0 /\ ev.attempt = log.nretry
                       THEN ev.delivered /\ ev.frees = 0
                       ELSE ev.frees = 1 /\ ~ev.delivered

\* a descriptor is settled: installed, or given back with its sync file
Settled(f) ==
    /\ f.installs + f.puts = 1
    /\ f.installs = 1 => f.sync = "created"
    /\ f.puts = 1 => f.sync # "created"

\* C9: descriptors are allocated only by the preparation, before the entry
\* point of the attempt is called, and the entry point settles none; once
\* the attempt is over each is settled, installed only if the attempt
\* succeeded and given back with its sync file released otherwise; a new
\* attempt starts with no recorded descriptor.
C9_FdsSettled ==
    /\ [](/\ \A i \in 1 .. Len(user.fds) :
                 /\ user.fds[i].installs + user.fds[i].puts <= 1
                 /\ (pc \in {"assemble", "props", "prepare", "done"}
                         \/ user.fds[i].attempt < log.nretry)
                        => Settled(user.fds[i])
                 /\ user.fds[i].installs = 1 =>
                        /\ pc = "done"
                        /\ local.ret = 0
                        /\ user.fds[i].attempt = log.nretry
          /\ pc \in {"assemble", "props", "prepare"} =>
                 local.fence_state = <<>> /\ local.num_fences = 0)
    /\ [][Len(user.fds') > Len(user.fds) =>
              /\ pc = "prepare"
              /\ log.check_rets' = log.check_rets
              /\ log.commit_calls' = log.commit_calls]_vars
    /\ [][Len(log.check_rets') > Len(log.check_rets) =>
              user.fds' = user.fds]_vars

\* the first attempt's descriptor was given back, the retry's was installed
C9_Witness ==
    /\ pc = "done"
    /\ Len(user.fds) = 2
    /\ user.fds[1].puts = 1 /\ user.fds[1].sync = "released"
    /\ user.fds[1].attempt = 0
    /\ user.fds[2].installs = 1 /\ user.fds[2].attempt = 1

\* the location holds the number of a descriptor that was installed
HoldsInstalledFd(a) ==
    \E i \in 1 .. Len(user.fds) :
        user.mem[a] = FdOf(i) /\ user.fds[i].installs = 1

\* C10: a location named by an OUT_FENCE_PTR property holds -1 from the
\* setting of the property until the out-fences are prepared, and holds -1
\* at return when the request failed or was test-only; at return it holds
\* a descriptor only when the commit succeeded.
C10_OutFencePtrDefault ==
    /\ \A a \in log.touched :
           /\ pc \in {"assemble", "props", "prepare"} => user.mem[a] = -1
           /\ (pc = "done" /\ (local.ret # 0 \/ "TEST_ONLY" \in arg.flags))
                  => user.mem[a] = -1
           /\ (pc = "done" /\ user.mem[a] # -1)
                  => /\ local.ret = 0
                     /\ "TEST_ONLY" \notin arg.flags
                     /\ HoldsInstalledFd(a)
    /\ \A a \in UserAddrs \ log.touched : user.mem[a] = 0

\* a descriptor had been written to the location; the request failed and
\* the location holds -1 again
C10_Witness ==
    /\ pc = "done"
    /\ local.ret # 0
    /\ Len(user.fds) >= 1
    /\ \E a \in log.touched : user.mem[a] = -1


\* the events made for CRTC c in the current attempt
EventsOf(c) ==
    {e \in 1 .. Len(log.events) :
         log.events[e].crtc = c /\ log.events[e].attempt = log.nretry}

\* C11: when a request with the page-flip-event flag succeeds, every CRTC
\* with a snapshot in the committed transaction carries exactly one event,
\* made by the ioctl in this attempt and reserved for the calling file, and
\* the commit takes it over; an event of an earlier attempt, which ended in
\* Deadlock, is never delivered.
C11_OneEventPerCrtc ==
    /\ [](\A e \in 1 .. Len(log.events) :
              /\ log.events[e].delivered =>
                     /\ log.events[e].attempt = log.nretry
                     /\ log.events[e].frees = 0
                     /\ pc \in {"out", "done"} /\ local.ret = 0
              /\ log.events[e].attempt < log.nretry =>
                     ~log.events[e].delivered)
    /\ [][(/\ pc = "commit" /\ pc' = "out" /\ local.ret' = 0
           /\ "PAGE_FLIP_EVENT" \in arg.flags)
              => \A c \in Crtcs :
                     state.crtcs[c].ptr # 0 =>
                         /\ EventsOf(c) = {state.crtcs[c].state.event}
                         /\ \A e \in EventsOf(c) :
                                /\ log.events[e].by = "ioctl"
                                /\ log.events[e].file_priv
                                /\ ~log.events[e].delivered
                                /\ log.events'[e].delivered
                                /\ log.events'[e].frees = 0]_vars

\* a request with the flag succeeded at the second attempt: the event of
\* the first attempt was cancelled, the event of the second was delivered
C11_Witness ==
    /\ pc = "done"
    /\ local.ret = 0
    /\ "PAGE_FLIP_EVENT" \in arg.flags
    /\ log.nretry = 1
    /\ \E e1, e2 \in 1 .. Len(log.events) :
           /\ log.events[e1].attempt = 0 /\ log.events[e1].frees = 1
           /\ ~log.events[e1].delivered
           /\ log.events[e2].attempt = 1 /\ log.events[e2].delivered
           /\ log.events[e2].file_priv


\* C12: a test-only request never reaches the atomic_commit hook, makes no
\* event and reserves no descriptor, leaves the legacy fb, crtc and old_fb
\* pointers of every plane alone, and has freed its transaction and
\* dropped every lock when it returns, whatever the check said; the device
\* is then as it was.
C12_TestOnlyNoEffect ==
    "TEST_ONLY" \in arg.flags =>
        /\ log.commit_calls = <<>>
        /\ log.events = <<>>
        /\ user.fds = <<>>
        /\ local.plane_mask = {}
        /\ \A p \in Planes :
               /\ dev.planes[p].fb = InitDev.planes[p].fb
               /\ dev.planes[p].crtc = InitDev.planes[p].crtc
               /\ dev.planes[p].old_fb = InitDev.planes[p].old_fb
        /\ pc = "done" =>
               /\ ~state.allocated
               /\ AllEntriesEmpty
               /\ ctx.held = {} /\ ctx.contended = <<>>
               /\ log.released.hook = 0
               /\ log.owner = "ioctl" =>
                      log.released.ioctl = 1 /\ log.ndrop = 1
               /\ dev = InitDev

\* a test-only request that set a property of a plane passed the check
C12_Witness ==
    /\ pc = "done"
    /\ "TEST_ONLY" \in arg.flags
    /\ local.ret = 0
    /\ Len(log.check_rets) = 1
    /\ \E i \in 1 .. Len(req.groups) :
           req.groups[i].obj[1] = "plane" /\ Len(req.groups[i].props) > 0

\* a test-only request was refused by the check and has returned
C12_WitnessRefused ==
    /\ pc = "done"
    /\ "TEST_ONLY" \in arg.flags
    /\ local.ret = -EINVAL
    /\ Len(log.check_rets) = 1
    /\ log.released.ioctl = 1


\* the object group and the property that the next property step sets
CurGroup == req.groups[local.i + 1]

CurProp == CurGroup.props[local.j + 1]

Setting(kind, name) ==
    pc = "props" /\ CurGroup.obj[1] = kind /\ CurProp[1] = name

\* C13: setting the in-fence descriptor of a plane whose snapshot holds a
\* fence already fails with -EINVAL and keeps the fence that is held,
\* whatever the value; on a snapshot that holds no fence the value -1 is
\* accepted and changes nothing in the snapshot.
C13_InFenceSetOnce ==
    [][Setting("plane", "IN_FENCE_FD") =>
           LET p == CurGroup.obj[2]
               held == state.planes[p].state.fence
           IN  /\ held # 0 =>
                      /\ pc' = "out" /\ local.ret' = -EINVAL
                      /\ state'.planes[p] = state.planes[p]
               /\ (held = 0 /\ CurProp[2] = -1) =>
                      /\ pc' # "out" /\ local.ret' = local.ret
                      /\ state'.planes[p].state.fence = 0
                      /\ state.planes[p].ptr # 0 =>
                             state'.planes[p] = state.planes[p]]_vars

\* a second in-fence descriptor for the same plane was refused, the fence
\* of the first is still held
C13_Witness ==
    /\ pc = "out"
    /\ local.ret = -EINVAL
    /\ Len(req.groups) = 2
    /\ \A i \in {1, 2} :
           /\ req.groups[i].obj = <<"plane", 1>>
           /\ Len(req.groups[i].props) = 1
           /\ req.groups[i].props[1][1] = "IN_FENCE_FD"
    /\ req.groups[1].props[1][2] = 5
    /\ state.planes[1].state.fence = 5

\* the value -1 was set on a plane that held no fence, and again after it
C13_WitnessSentinel ==
    /\ pc = "assemble"
    /\ Len(req.groups) = 2 /\ local.i = 2
    /\ \A i \in {1, 2} : req.groups[i] =
           [obj |-> <<"plane", 1>>, props |-> <<<<"IN_FENCE_FD", -1>>>>]
    /\ state.planes[1].state.fence = 0


\* C13 as stated: a held fence makes the call fail, and the value -1 is
\* accepted as a no-op, each without regard to the other
C13_SentinelAlwaysAccepted ==
    [][Setting("plane", "IN_FENCE_FD") =>
           LET p == CurGroup.obj[2]
               held == state.planes[p].state.fence
           IN  /\ held # 0 =>
                      /\ pc' = "out" /\ local.ret' = -EINVAL
                      /\ state'.planes[p] = state.planes[p]
               /\ CurProp[2] = -1 =>
                      /\ pc' # "out" /\ local.ret' = local.ret
                      /\ state'.planes[p].state.fence = held]_vars


\* C14: the CRTC check refuses with -EINVAL a snapshot that carries an event
\* when the CRTC is inactive both in its current state and in the snapshot;
\* when the CRTC is active in either, the event makes no difference to the
\* result of the check.
C14_EventNeedsActiveCrtc ==
    \A c \in Crtcs :
        LET st == state.crtcs[c].state
        IN  (state.allocated /\ state.crtcs[c].ptr # 0 /\ st.event # 0) =>
                IF ~st.active /\ ~dev.crtcs[c].state.active
                THEN drm_atomic_crtc_check(World(0), c, st) = -EINVAL
                ELSE drm_atomic_crtc_check(World(0), c, st) =
                         drm_atomic_crtc_check(World(0), c,
                                               [st EXCEPT !.event = 0])

\* a CRTC that was off is given a mode and made active, and carries an
\* event: the transaction was checked and the CRTC check accepts the CRTC
C14_Witness ==
    /\ pc = "out"
    /\ Len(log.check_rets) = 1
    /\ \E c \in Crtcs :
           /\ state.crtcs[c].ptr # 0
           /\ state.crtcs[c].state.event # 0
           /\ state.crtcs[c].state.active
           /\ ~dev.crtcs[c].state.active
           /\ drm_atomic_crtc_check(World(0), c, state.crtcs[c].state) = 0

\* a CRTC that is off and stays off carries an event: the check refused
C14_WitnessRefused ==
    /\ pc = "out"
    /\ local.ret = -EINVAL
    /\ Len(log.check_rets) = 1
    /\ \E c \in Crtcs :
           /\ state.crtcs[c].ptr # 0
           /\ state.crtcs[c].state.event # 0
           /\ ~state.crtcs[c].state.active
           /\ ~dev.crtcs[c].state.active
           /\ ~state.crtcs[c].state.enable
           /\ state.crtcs[c].state.mode_blob = 0


\* x + w <= pixels * 65536, computed without the product
WithinPixels(x, w, pixels) ==
    \/ (x + w) \div 65536 < pixels
    \/ (x + w) \div 65536 = pixels /\ (x + w) % 65536 = 0

\* the source rectangle of the snapshot lies inside its framebuffer
SrcInsideFb(st) ==
    /\ WithinPixels(st.src_x, st.src_w, FbInfo(st.fb).width)
    /\ WithinPixels(st.src_y, st.src_h, FbInfo(st.fb).height)

\* the plane is enabled and the checks before the source rectangle pass
ReachesSrcCheck(p, st) ==
    /\ st.crtc # 0 /\ st.fb # 0
    /\ st.crtc \in PossibleCrtcs(p)
    /\ FbInfo(st.fb).format_ok
    /\ st.crtc_w <= INT_MAX /\ st.crtc_x <= INT_MAX - st.crtc_w
    /\ st.crtc_h <= INT_MAX /\ st.crtc_y <= INT_MAX - st.crtc_h

\* C15: for an enabled plane and every framebuffer size the plane check
\* fails with -ENOSPC exactly when the 16.16 source rectangle does not lie
\* inside the framebuffer.
C15_SrcInsideFbExactly ==
    \A p \in Planes :
        LET st == state.planes[p].state
        IN  (state.allocated /\ state.planes[p].ptr # 0
                 /\ ReachesSrcCheck(p, st)) =>
                ((drm_atomic_plane_check(World(0), p, st) = -ENOSPC)
                     <=> ~SrcInsideFb(st))


\* C16: the plane check fails with -EINVAL when exactly one of the
\* snapshot's CRTC and framebuffer is set, and returns 0 for a snapshot with
\* neither, whatever its other fields hold.
C16_CrtcAndFbTogether ==
    \A p \in Planes :
        LET st == state.planes[p].state
        IN  (state.allocated /\ state.planes[p].ptr # 0) =>
                /\ (st.crtc = 0) # (st.fb = 0) =>
                       drm_atomic_plane_check(World(0), p, st) = -EINVAL
                /\ (st.crtc = 0 /\ st.fb = 0) =>
                       drm_atomic_plane_check(World(0), p, st) = 0

\* a plane without CRTC and framebuffer whose source rectangle fits no
\* framebuffer of the device has passed the check
C16_Witness ==
    /\ pc = "out"
    /\ local.ret = 0
    /\ Len(log.check_rets) = 1
    /\ \E p \in Planes :
           /\ state.planes[p].ptr # 0
           /\ state.planes[p].state.crtc = 0
           /\ state.planes[p].state.fb = 0
           /\ state.planes[p].state.src_w = Fix16(300)

\* a plane with a CRTC and no framebuffer was refused
C16_WitnessRefused ==
    /\ pc = "out"
    /\ local.ret = -EINVAL
    /\ \E p \in Planes :
           /\ state.planes[p].ptr # 0
           /\ state.planes[p].state.crtc # 0
           /\ state.planes[p].state.fb = 0


\* the snapshot of plane p names a CRTC other than the one the plane is on
Switching(p) ==
    /\ state.allocated
    /\ state.planes[p].ptr # 0
    /\ dev.planes[p].state.crtc # 0
    /\ state.planes[p].state.crtc # 0
    /\ state.planes[p].state.crtc # dev.planes[p].state.crtc

\* C17: a plane snapshot that names a CRTC other than the CRTC of the
\* plane's current state fails the plane check, with -EINVAL when the
\* checks before it pass; a transaction with such a plane is refused and
\* never committed, so the current CRTC of a plane that has one changes
\* only to none.
C17_NoDirectCrtcSwitch ==
    /\ [](\A p \in Planes :
              LET st == state.planes[p].state
                  r == drm_atomic_plane_check(World(0), p, st)
              IN  Switching(p) =>
                      /\ r \in {-EINVAL, -ERANGE, -ENOSPC}
                      /\ (ReachesSrcCheck(p, st) /\ r # -ENOSPC)
                             => r = -EINVAL)
    /\ [][(pc = "commit" /\ \E p \in Planes : Switching(p)) =>
              /\ local.ret' # 0
              /\ log.commit_calls' = log.commit_calls
              /\ dev' = dev]_vars
    /\ [][\A p \in Planes :
              dev.planes[p].state.crtc # 0 =>
                  dev'.planes[p].state.crtc
                      \in {0, dev.planes[p].state.crtc}]_vars

\* plane 1 of the active CRTC 1 was aimed at CRTC 2, which the same
\* transaction makes active: the check refused with -EINVAL
C17_Witness ==
    /\ pc = "out"
    /\ local.ret = -EINVAL
    /\ log.check_rets = <<-EINVAL>>
    /\ Switching(1)
    /\ dev.crtcs[dev.planes[1].state.crtc].state.active
    /\ state.crtcs[state.planes[1].state.crtc].state.active
    /\ drm_atomic_plane_check(World(0), 1, state.planes[1].state) = -EINVAL

\* a committed transaction has taken plane 1 off its CRTC
C17_WitnessOff ==
    /\ pc = "done"
    /\ local.ret = 0
    /\ InitDev.planes[1].state.crtc # 0
    /\ dev.planes[1].state.crtc = 0

\* every plane and every CRTC of the transaction passes its check
ObjectChecksPass(w) ==
    /\ \A p \in PlanesInState(w) :
           drm_atomic_plane_check(w, p, w.state.planes[p].state) = 0
    /\ \A c \in CrtcsInState(w) :
           drm_atomic_crtc_check(w, c, w.state.crtcs[c].state) = 0

NeedsModeset(w) ==
    \E c \in CrtcsInState(w) : drm_atomic_crtc_needs_modeset(w, c)

\* the step of a check from world w obeys the order and the modeset rule
HookLastThenModesetRule(w) ==
    /\ log.hook_calls' = log.hook_calls + (IF ObjectChecksPass(w) THEN 1 ELSE 0)
    /\ ~ObjectChecksPass(w) => LastCheck' # 0
    /\ (ObjectChecksPass(w) /\ atomic_check_hook(w) # 0) =>
           LastCheck' = atomic_check_hook(w)
    /\ (ObjectChecksPass(w) /\ atomic_check_hook(w) = 0) =>
           LastCheck' = IF "ALLOW_MODESET" \notin arg.flags /\ NeedsModeset(w)
                         THEN -EINVAL
                         ELSE 0

\* C18: drm_atomic_check_only calls the global atomic_check hook exactly when
\* every plane check and every CRTC check of the transaction has passed, and
\* not at all otherwise; an error of the hook is the result; after the hook
\* succeeded the result is -EINVAL when the request did not set ALLOW_MODESET
\* and some CRTC snapshot needs a modeset, and 0 otherwise, so the same
\* transaction passes with ALLOW_MODESET.
C18_HookLastThenModesetRule ==
    [][Len(log.check_rets') > Len(log.check_rets) =>
           HookLastThenModesetRule(World(0))]_vars

\* a request without ALLOW_MODESET that turns a CRTC off was refused after
\* its object checks and the hook had passed
C18_Witness ==
    /\ Len(log.check_rets) = 1
    /\ log.hook_calls = 1
    /\ "ALLOW_MODESET" \notin arg.flags
    /\ LastCheck = -EINVAL
    /\ state.allocated
    /\ ObjectChecksPass(World(0))
    /\ atomic_check_hook(World(0)) = 0
    /\ NeedsModeset(World(0))

\* the same change passed in a request with ALLOW_MODESET
C18_WitnessAllowed ==
    /\ Len(log.check_rets) = 1
    /\ log.hook_calls = 1
    /\ "ALLOW_MODESET" \in arg.flags
    /\ LastCheck = 0
    /\ state.allocated
    /\ NeedsModeset(World(0))

\* a failing plane or CRTC check kept the hook from running
C18_WitnessNoHook ==
    /\ Len(log.check_rets) = 1
    /\ log.hook_calls = 0
    /\ LastCheck # 0

\* the next property step sets an id property to a non-zero value that
\* names no object of the kind the property refers to
SettingUnknownId ==
    \/ Setting("crtc", "MODE_ID") /\ CurProp[2] \notin Blobs \cup {0}
    \/ Setting("plane", "CRTC_ID") /\ CurProp[2] \notin Crtcs \cup {0}
    \/ Setting("connector", "CRTC_ID") /\ CurProp[2] \notin Crtcs \cup {0}

\* the snapshot that a property step on object k works on: the one of the
\* transaction, or the current state the step would duplicate
SnapshotOf(k) ==
    IF k[1] = "crtc"
    THEN IF state.crtcs[k[2]].ptr # 0 THEN state.crtcs[k[2]].state
         ELSE dev.crtcs[k[2]].state
    ELSE IF k[1] = "plane"
    THEN IF state.planes[k[2]].ptr # 0 THEN state.planes[k[2]].state
         ELSE dev.planes[k[2]].state
    ELSE IF state.connectors[k[2]].ptr # 0 THEN state.connectors[k[2]].state
         ELSE dev.connectors[k[2]].state

ExtensionStep(obj, val) ==
    IF dev.funcs[obj[1]]
    THEN /\ log.ext_calls' = Append(log.ext_calls, <<obj, "EXT", val>>)
         /\ IF atomic_set_property_hook(World(0), obj, "EXT", val).ret = 0
            THEN pc' # "out" /\ local.ret' = local.ret
            ELSE /\ pc' = "out"
                 /\ local.ret' =
                        atomic_set_property_hook(World(0), obj, "EXT", val).ret
    ELSE /\ log.ext_calls' = log.ext_calls
         /\ pc' = "out"
         /\ local.ret' = -EINVAL
         /\ [SnapshotOf(obj)' EXCEPT !.id = 0]
                = [SnapshotOf(obj) EXCEPT !.id = 0]

\* C20: for a CRTC, a plane and a connector alike, setting a property that
\* is no core property calls the atomic_set_property callback of the object
\* once, with the property and the value, and returns its result when the
\* callback exists; without a callback the call fails with -EINVAL and the
\* snapshot keeps its contents; setting a core property calls no callback.
C20_ExtensionForwarded ==
    [][pc = "props" =>
           IF CurProp[1] = "EXT"
           THEN ExtensionStep(CurGroup.obj, CurProp[2])
           ELSE log.ext_calls' = log.ext_calls]_vars

\* the callbacks of two kinds of object were called: the first accepted the
\* value, the error of the second is the result
C20_Witness ==
    /\ pc = "out"
    /\ local.ret = -ERANGE
    /\ Len(log.ext_calls) = 2
    /\ log.ext_calls[1][1][1] # log.ext_calls[2][1][1]
    /\ log.ext_calls[1][3] = 0
    /\ log.ext_calls[2][3] = 1

\* a driver without callbacks: the property was refused
C20_WitnessNoCallback ==
    /\ pc = "out"
    /\ local.ret = -EINVAL
    /\ ~dev.funcs.plane
    /\ Len(req.groups) = 1
    /\ req.groups[1].obj[1] = "plane"
    /\ req.groups[1].props = <<<<"EXT", 0>>>>

\* 1 for a pointer that is set, 0 for NULL
Held(ptr) == IF ptr # 0 THEN 1 ELSE 0

\* the references on connector k: the one of its creation, the one of the
\* link of its current state, and for a snapshot in the transaction the one
\* of the entry and the one of the snapshot's link
ConnectorRefs(k) ==
    1 + Held(dev.connectors[k].state.crtc)
      + (IF state.connectors[k].ptr # 0
         THEN 1 + Held(state.connectors[k].state.crtc)
         ELSE 0)

\* C21: for a connector that has a snapshot in the transaction, the bit of
\* the connector is set in the connector_mask of a CRTC snapshot exactly
\* when the connector snapshot references that CRTC, and the connector's
\* reference count holds one reference for the link exactly when the
\* snapshot references a CRTC; a call of drm_atomic_set_crtc_for_connector
\* on the snapshot, failing or not, changes the reference count by the
\* links it takes minus the links it drops.
C21_ConnectorLinkSymmetric ==
    /\ [](\A k \in Connectors :
              /\ dev.connectors[k].refcount = ConnectorRefs(k)
              /\ state.connectors[k].ptr # 0 =>
                     \A c \in Crtcs :
                         state.crtcs[c].ptr # 0 =>
                             (k \in state.crtcs[c].state.connector_mask
                                  <=> state.connectors[k].state.crtc = c))
    /\ [][(Setting("connector", "CRTC_ID")
              /\ state.connectors[CurGroup.obj[2]].ptr # 0) =>
              /\ state'.connectors[CurGroup.obj[2]].ptr # 0
              /\ dev'.connectors[CurGroup.obj[2]].refcount
                     - dev.connectors[CurGroup.obj[2]].refcount
                 = Held(state'.connectors[CurGroup.obj[2]].state.crtc)
                     - Held(state.connectors[CurGroup.obj[2]].state.crtc)]_vars

\* the connector was unlinked from CRTC 1 and the link to CRTC 2 failed:
\* the snapshot references no CRTC and holds no reference for a link
C21_Witness ==
    /\ pc = "out"
    /\ local.ret \in {-ENOMEM, -EDEADLK}
    /\ local.i = 0
    /\ req.groups[1] = [obj |-> <<"connector", 1>>,
                        props |-> <<<<"CRTC_ID", 2>>>>]
    /\ state.connectors[1].ptr # 0
    /\ state.connectors[1].state.id # 0
    /\ state.connectors[1].state.crtc = 0
    /\ state.crtcs[1].ptr # 0
    /\ 1 \notin state.crtcs[1].state.connector_mask
    /\ dev.connectors[1].refcount = 3

\* the connector was moved from CRTC 1 to CRTC 2
C21_WitnessMoved ==
    /\ Assembling
    /\ state.connectors[1].state.crtc = 2
    /\ 1 \in state.crtcs[2].state.connector_mask
    /\ 1 \notin state.crtcs[1].state.connector_mask
    /\ dev.connectors[1].refcount = 4

\* the blob pointers of a CRTC snapshot
BlobFields == {"mode_blob", "degamma_lut", "ctm", "gamma_lut"}

\* the number of fields of the transaction's CRTC snapshots that hold blob b
BlobHolders(b) ==
    Cardinality({cf \in Crtcs \X BlobFields :
                    /\ state.crtcs[cf[1]].ptr # 0
                    /\ state.crtcs[cf[1]].state[cf[2]] = b})

ColorField(name) ==
    IF name = "DEGAMMA_LUT" THEN "degamma_lut"
    ELSE IF name = "CTM" THEN "ctm"
    ELSE "gamma_lut"

\* the id names no blob, or names a blob that is no colour matrix where
\* one is required
BadColorBlob(field, val) ==
    /\ val # 0
    /\ \/ val \notin Blobs
       \/ field = "ctm" /\ BlobInfo(val).length # "ctm"

\* the step that sets the colour blob  field  of CRTC c to val
ColorBlobStep(c, field, val) ==
    IF BadColorBlob(field, val)
    THEN /\ pc' = "out"
         /\ local.ret' = -EINVAL
         /\ [state'.crtcs[c].state EXCEPT !.id = 0]
                = [SnapshotOf(<<"crtc", c>>) EXCEPT !.id = 0]
         /\ state.crtcs[c].ptr # 0 => dev'.blobref = dev.blobref
    ELSE /\ pc' # "out"
         /\ local.ret' = local.ret
         /\ state'.crtcs[c].state =
                [SnapshotOf(<<"crtc", c>>) EXCEPT
                    ![field] = val,
                    !.id = state'.crtcs[c].state.id,
                    !.color_mgmt_changed =
                        @ \/ SnapshotOf(<<"crtc", c>>)[field] # val]
         /\ (state.crtcs[c].ptr # 0 /\ state.crtcs[c].state[field] = val)
                => dev'.blobref = dev.blobref

\* C22: the reference count of every blob is its initial count plus the
\* number of fields of the transaction's CRTC snapshots that hold it,
\* whatever degamma-LUT, gamma-LUT, colour-matrix and mode properties were
\* set; setting a colour blob that is held already changes no count, and a
\* call that fails with -EINVAL (an id that names no blob, a colour matrix
\* of the wrong length) leaves the field, color_mgmt_changed and the counts
\* as they were; a call that succeeds stores the blob and sets
\* color_mgmt_changed when the blob differs from the one held.
C22_BlobCountsMatchFields ==
    /\ [](\A b \in Blobs : dev.blobref[b] = 2 + BlobHolders(b))
    /\ [][(Setting("crtc", "DEGAMMA_LUT") \/ Setting("crtc", "CTM")
               \/ Setting("crtc", "GAMMA_LUT")) =>
              ColorBlobStep(CurGroup.obj[2], ColorField(CurProp[1]),
                            CurProp[2])]_vars

\* the gamma LUT that CRTC 1 held was replaced by blob 1: the old blob is
\* back at its initial count and the new one has one reference more
C22_Witness ==
    /\ pc = "assemble"
    /\ Len(req.groups) = 2 /\ local.i = 2
    /\ req.groups[1] = [obj |-> <<"crtc", 1>>,
                        props |-> <<<<"GAMMA_LUT", 2>>>>]
    /\ req.groups[2] = [obj |-> <<"crtc", 1>>,
                        props |-> <<<<"GAMMA_LUT", 1>>>>]
    /\ state.crtcs[1].state.gamma_lut = 1
    /\ state.crtcs[1].state.color_mgmt_changed
    /\ dev.blobref[2] = 2
    /\ dev.blobref[1] = 4

\* a colour matrix of the wrong length was refused after a matrix was set
C22_WitnessRefused ==
    /\ pc = "out"
    /\ local.ret = -EINVAL
    /\ Len(req.groups) = 2
    /\ req.groups[1].props = <<<<"CTM", 3>>>>
    /\ req.groups[2].props = <<<<"CTM", 1>>>>
    /\ req.groups[1].obj = req.groups[2].obj
    /\ state.crtcs[req.groups[1].obj[2]].state.ctm = 3
    /\ dev.blobref[3] = 3

\* C23: a step in which the lock primitive signals Deadlock, in a
\* get-or-create, in the linking of a plane or connector, in an add-affected
\* helper or in the commit, ends at the out label with -EDEADLK as the
\* result and has cleared nothing and backed off from nothing; the clear and
\* the backoff happen once each, and only in the step of the ioctl that
\* handles the -EDEADLK result at the out label.
C23_DeadlockOnlyPropagates ==
    /\ [][log.ndeadlock' > log.ndeadlock =>
              /\ pc \in {"props", "commit"}
              /\ pc' = "out"
              /\ local.ret' = -EDEADLK
              /\ log.nclear' = log.nclear
              /\ log.nbackoff' = log.nbackoff
              /\ log.nretry' = log.nretry
              /\ state'.allocated]_vars
    /\ [][log.nbackoff' # log.nbackoff =>
              /\ pc = "out"
              /\ local.ret = -EDEADLK
              /\ log.nbackoff' = log.nbackoff + 1
              /\ log.nclear' = log.nclear + 1
              /\ log.ndeadlock' = log.ndeadlock]_vars
    /\ [][(log.nclear' # log.nclear /\ log.nbackoff' = log.nbackoff) =>
              ~state'.allocated]_vars

\* an add-affected helper met the deadlock: the result is pending at the out
\* label, nothing was cleared
C23_Witness ==
    /\ pc = "out"
    /\ local.ret = -EDEADLK
    /\ local.i = Len(req.groups)
    /\ req.closed
    /\ log.commit_calls = <<>>
    /\ Len(log.check_rets) = 0
    /\ log.nclear = 0
    /\ log.nbackoff = 0
    /\ \E c \in Crtcs : state.crtcs[c].ptr # 0

\* the ioctl returns the error that is pending at the out label, with the
\* transaction freed by the ioctl, no lock held and every descriptor of the
\* attempt given back with its sync file released
ErrorReturned ==
    /\ pc' = "done"
    /\ local.ret' = local.ret
    /\ ~state'.allocated
    /\ log.released'.ioctl = 1
    /\ ctx'.held = {}
    /\ \A i \in 1 .. Len(user.fds') :
           /\ user.fds'[i].installs = 0
           /\ user.fds'[i].puts = 1
           /\ user.fds'[i].sync # "created"

\* every event the ioctl made in the attempt is freed once, and undelivered
EventsCancelled ==
    \A e \in 1 .. Len(log.events') :
        (log.events'[e].by = "ioctl" /\ log.events'[e].attempt = log.nretry)
            => log.events'[e].frees = 1 /\ ~log.events'[e].delivered

\* C24: an error other than -EDEADLK that is pending at the out label is
\* what the ioctl returns in its next step, and at the return the events
\* of the attempt are cancelled, its descriptors and sync files released,
\* the transaction freed and all locks dropped.
C24_ErrorReturnedAfterCleanup ==
    [][(pc = "out" /\ local.ret \notin {0, -EDEADLK}) =>
           ErrorReturned /\ EventsCancelled]_vars

\* world b is world a but for the count of the clears
SameButCount(a, b) ==
    /\ b.state = a.state
    /\ b.dev = a.dev
    /\ b.ctx = a.ctx
    /\ b.user = a.user
    /\ [b.log EXCEPT !.nclear = 0] = [a.log EXCEPT !.nclear = 0]

ClearedTwice(once) ==
    SameButCount(once, drm_atomic_state_default_clear(once))

\* C25: drm_atomic_state_default_clear called on the transaction it has
\* just cleared calls no destroy hook, drops no reference, frees no commit
\* record or event and leaves the transaction as it is, for every
\* transaction the ioctl builds; and a clear that the ioctl makes on a
\* transaction whose entries are all empty has none of these effects.
C25_ClearIdempotent ==
    /\ [](state.allocated =>
              ClearedTwice(drm_atomic_state_default_clear(World(0))))
    /\ [][(log.nclear' = log.nclear + 1 /\ AllEntriesEmpty) =>
              /\ log.snaps' = log.snaps
              /\ log.events' = log.events
              /\ dev' = dev
              /\ state'.crtcs = state.crtcs
              /\ state'.planes = state.planes
              /\ state'.connectors = state.connectors]_vars

\* the retry cleared a transaction that held a snapshot; the second attempt
\* failed before it made one, and the ioctl cleared the transaction again
C25_Witness ==
    /\ pc = "done"
    /\ log.nretry = 1
    /\ log.nclear = 2
    /\ local.i = 0
    /\ local.ret = -ENOMEM
    /\ req.groups[1].obj[1] = "crtc"
    /\ DOMAIN log.snaps # {}
    /\ \A key \in DOMAIN log.snaps : log.snaps[key] = 1

\* C26: when drm_atomic_state_default_clear has run on a transaction that
\* stays allocated, every CRTC entry is empty: no object pointer, no
\* snapshot, no commit record and no out-fence pointer, so the transaction
\* is the freshly allocated one but for allow_modeset and the size of the
\* connector array.
C26_ClearEmptiesCrtcEntries ==
    [][(log.nclear' > log.nclear /\ state'.allocated) =>
           /\ \A c \in Crtcs : state'.crtcs[c] = EmptyCrtcEntry
           /\ [state' EXCEPT !.allow_modeset = TRUE, !.num_connector = 0]
                  = [NoTransaction EXCEPT !.allocated = TRUE,
                                          !.allow_modeset = TRUE]]_vars

\* what is left of the call: the part before the loop, the passes of the
\* loop that the lock primitive can still fail, and the pass that succeeds
LegacyMeasure ==
    (IF pc = "collect" THEN 1 ELSE 0) + (IF pc = "done" THEN 0 ELSE 1)
        + (MaxDeadlocks - log.ndeadlock)

\* C27: when drm_atomic_legacy_backoff has returned, the context holds
\* every modeset lock, every pass of its loop that failed was followed by
\* another backoff and lock-all, and the acquire_ctx of every CRTC and of
\* the mode configuration is what it was at the call; while the function
\* runs, only pointers that pointed to the context at the call are changed,
\* to NULL; the function can always take a step until it returns, and a
\* pass of the loop that does not return is one in which the lock primitive
\* signalled Deadlock, so the function returns once that happens no more.
C27_LegacyBackoffLocksAll ==
    /\ [](pc = "done" =>
              /\ ctx.held = AllLocks
              /\ ctx.contended = <<>>
              /\ local.ret = 0
              /\ log.nbackoff = log.ndeadlock + 1
              /\ dev.acquire_ctx = req.acquire_ctx
              /\ dev.mode_config_acquire_ctx = req.mode_config_acquire_ctx)
    /\ [](\A c \in Crtcs :
              \/ dev.acquire_ctx[c] = req.acquire_ctx[c]
              \/ req.acquire_ctx[c] = "ctx" /\ dev.acquire_ctx[c] = "NULL"
                     /\ pc = "retry")
    /\ [](/\ pc \in {"collect", "retry", "done"}
          /\ LegacyMeasure >= 0)
    /\ [][pc # "done" => LegacyMeasure' < LegacyMeasure]_vars

\* lock-all failed once and the function went round its loop; the pointers
\* of CRTC 1 and of the mode configuration point to the context again, the
\* pointer of CRTC 2 to the other context as before
C27_Witness ==
    /\ pc = "done"
    /\ log.ndeadlock = 1
    /\ log.nbackoff = 2
    /\ req.acquire_ctx = (1 :> "ctx" @@ 2 :> "other")
    /\ dev.acquire_ctx = req.acquire_ctx
    /\ local.crtc_mask = {1}
    /\ local.global
    /\ dev.mode_config_acquire_ctx = "ctx"
    /\ ctx.held = AllLocks

(* ---------------------------------------------------------------------- *)
(* drm_atomic_set_mode_for_crtc and the fields of the snapshot.            *)
(* ---------------------------------------------------------------------- *)
\* the step is a call of fn, recorded as the last call
ModeCallStep(fn) ==
    /\ Len(req.calls') = Len(req.calls) + 1
    /\ req.calls'[Len(req.calls')].fn = fn

\* what a call of drm_atomic_set_mode_for_crtc does to the snapshot
SetModeFrame(before, after, call) ==
    /\ [after EXCEPT !.mode = 0, !.mode_blob = 0, !.enable = FALSE]
           = [before EXCEPT !.mode = 0, !.mode_blob = 0, !.enable = FALSE]
    /\ (call.arg = 0 => ~after.enable)
    /\ (call.arg # 0 /\ call.ret = 0 => after.enable)
    /\ (call.ret # 0 => after.enable = before.enable)

SetModeKeeps(before, after) ==
    /\ after.enable = before.enable
    /\ after.active = before.active
    /\ after.mode_changed = before.mode_changed

C28_WitnessNull ==
    /\ pc = "mode"
    /\ Len(req.calls) = 1
    /\ req.calls[1].fn = "set_mode_for_crtc"
    /\ req.calls[1].arg = 0
    /\ dev.crtcs[req.calls[1].crtc].state.enable
    /\ ~state.crtcs[req.calls[1].crtc].state.enable
    /\ state.crtcs[req.calls[1].crtc].state.active

(* ---------------------------------------------------------------------- *)
(* The enable flag and the mode blob of a snapshot.                        *)
(* ---------------------------------------------------------------------- *)
\* the pointer is to a blob that is alive
ValidBlob(b) ==
    /\ b \in DOMAIN dev.blobref
    /\ dev.blobref[b] > 0

\* the two WARN_ON conditions of drm_atomic_crtc_check
CrtcCheckWarns(st) ==
    \/ st.enable /\ st.mode_blob = 0
    \/ ~st.enable /\ st.mode_blob # 0

\* C30: after any sequence of calls of the mode setters on a CRTC snapshot,
\* calls that returned an error included, the snapshot's enable flag is true
\* exactly when it holds a valid mode blob, and drm_atomic_crtc_check never
\* finds it enabled without a mode or disabled with one
C30_EnableIffModeBlob ==
    /\ \A c \in Crtcs :
           state.crtcs[c].ptr # 0 =>
               (state.crtcs[c].state.enable
                    <=> ValidBlob(state.crtcs[c].state.mode_blob))
    /\ \A c \in Crtcs :
           state.crtcs[c].ptr # 0 => ~CrtcCheckWarns(state.crtcs[c].state)

(* ---------------------------------------------------------------------- *)
(* The legacy pointers of the planes: plane->fb, plane->crtc, old_fb.      *)
(* ---------------------------------------------------------------------- *)
LegacyPointersMoved ==
    \E p \in Planes :
        \/ dev'.planes[p].fb # dev.planes[p].fb
        \/ dev'.planes[p].crtc # dev.planes[p].crtc

\* the planes of plane_mask have the fb and crtc of their current state
LegacyPointersCurrent(d, plane_mask) ==
    \A p \in plane_mask :
        /\ d.planes[p].fb = d.planes[p].state.fb
        /\ d.planes[p].crtc = d.planes[p].state.crtc

LegacyPointersStep ==
    /\ (pc = "out" /\ pc' # "out" =>
            \A p \in Planes : dev'.planes[p].old_fb = 0)
    /\ (LegacyPointersMoved =>
            /\ pc = "out"
            /\ local.ret = 0
            /\ log.commit_calls # <<>>)
    /\ (pc = "out" /\ pc' # "out" /\ local.ret = 0 =>
            LegacyPointersCurrent(dev', local.plane_mask))

\* C29: an atomic ioctl that returns an error leaves fb and crtc of every
\* plane as before the call; old_fb of every plane is NULL whenever the
\* ioctl leaves its out label, to return or to retry after Deadlock; fb and
\* crtc change only at the out label after a commit that returned success,
\* and then every plane the request touched gets the fb and crtc of its
\* current state in the same step
C29_LegacyPointersAllOrNone ==
    /\ [](pc = "done" =>
              /\ \A p \in Planes : dev.planes[p].old_fb = 0
              /\ local.ret # 0 =>
                     \A p \in Planes :
                         /\ dev.planes[p].fb = InitDev.planes[p].fb
                         /\ dev.planes[p].crtc = InitDev.planes[p].crtc)
    /\ [][LegacyPointersStep]_vars

\* a commit succeeded and gave a touched plane another fb or crtc
C29_Witness ==
    /\ pc = "done"
    /\ local.ret = 0
    /\ \E p \in local.plane_mask :
           /\ \/ dev.planes[p].fb # InitDev.planes[p].fb
              \/ dev.planes[p].crtc # InitDev.planes[p].crtc
           /\ dev.planes[p].fb = dev.planes[p].state.fb
           /\ dev.planes[p].old_fb = 0

\* a request that touched a plane returned an error after a Deadlock retry
C29_WitnessError ==
    /\ pc = "done"
    /\ local.ret \notin {0, -EDEADLK}
    /\ log.nretry > 0
    /\ \E i \in 1 .. Len(req.groups) :
           req.groups[i].obj[1] = "plane" /\ Len(req.groups[i].props) > 0
    /\ "TEST_ONLY" \notin arg.flags

(* ---------------------------------------------------------------------- *)
(* The acquire context on the return paths of the ioctl.                   *)
(* ---------------------------------------------------------------------- *)
\* C38: on every return of the atomic ioctl after drm_modeset_acquire_init,
\* the path where the transaction could not be allocated included, the
\* context holds no lock and drm_modeset_drop_locks and
\* drm_modeset_acquire_fini were each called exactly once
C38_ContextFinalisedOnReturn ==
    pc = "done" /\ log.ninit > 0 =>
        /\ ctx.held = {}
        /\ ctx.contended = <<>>
        /\ log.ndrop = 1
        /\ log.nfini = 1

(* ---------------------------------------------------------------------- *)
(* drm_atomic_set_crtc_for_plane that fails.                               *)
(* ---------------------------------------------------------------------- *)
\* the CRTC of plane p and the plane_mask of CRTC c as transaction st has
\* them: from the snapshot, or from the current state when st holds none
PlaneCrtcIn(st, p) ==
    IF st.planes[p].ptr # 0 THEN st.planes[p].state.crtc
    ELSE dev.planes[p].state.crtc

PlaneMaskIn(st, c) ==
    IF st.crtcs[c].ptr # 0 THEN st.crtcs[c].state.plane_mask
    ELSE dev.crtcs[c].state.plane_mask

LinkKept(p) ==
    /\ PlaneCrtcIn(state', p) = PlaneCrtcIn(state, p)
    /\ \A c \in Crtcs : PlaneMaskIn(state', c) = PlaneMaskIn(state, c)
    /\ \A c \in Crtcs : p \in PlaneMaskIn(state', c)
                            <=> PlaneCrtcIn(state', p) = c

\* C36: when setting the CRTC of a plane fails with Deadlock or OutOfMemory,
\* the plane snapshot's CRTC and the plane_mask of every CRTC snapshot are as
\* before the call, and plane and CRTC still agree
C36_FailedLinkChangesNothing ==
    [][/\ Setting("plane", "CRTC_ID")
       /\ pc' = "out"
       /\ local.ret' \in {-EDEADLK, -ENOMEM}
       => LinkKept(CurGroup.obj[2])]_vars

(* ---------------------------------------------------------------------- *)
(* The CRTC entry of a snapshot that references a CRTC.                    *)
(* ---------------------------------------------------------------------- *)
\* C34: whenever a get-or-create of a plane or connector returns a snapshot
\* that references a CRTC, the transaction holds a populated entry for that
\* CRTC, also when an earlier call on the same object had failed while it
\* acquired the CRTC
C34_ReturnedSnapshotHasCrtcEntry ==
    pc = "helper" /\ req.calls # <<>> =>
        LET call == req.calls[Len(req.calls)]
            k == call.crtc
            st == SnapshotOf(k)
        IN  call.fn = "get_state" /\ call.ret = 0 /\ k[1] # "crtc"
                /\ st.crtc # 0
            => state.crtcs[st.crtc].ptr # 0

(* ---------------------------------------------------------------------- *)
(* The reference count of a framebuffer that a plane snapshot holds.       *)
(* ---------------------------------------------------------------------- *)
\* the plane snapshots of the transaction that reference framebuffer f
FbHolders(f) ==
    {p \in Planes : state.planes[p].ptr # 0 /\ state.planes[p].state.fb = f}

\* C37: through any sequence of framebuffer assignments to plane snapshots
\* no framebuffer that a snapshot references was ever brought to a count of
\* zero, also when the framebuffer assigned is the one the snapshot holds
\* and its reference is the only one; after each call the count is the
\* initial count, less what other holders dropped, plus the number of
\* snapshots that reference the framebuffer
C37_FbAliveWhileReferenced ==
    pc = "helper" =>
        \A f \in Fbs :
            /\ FbHolders(f) # {} => f \notin log.freed_fbs
            /\ dev.fbref[f] = InitDev.fbref[f] - arg.dropped[f]
                                  + Cardinality(FbHolders(f))

(* ---------------------------------------------------------------------- *)
(* The locks of the objects whose snapshots the transaction holds.         *)
(* ---------------------------------------------------------------------- *)
SnapshotsLocked ==
    /\ \A c \in Crtcs : state.crtcs[c].ptr # 0 => CrtcLock(c) \in ctx.held
    /\ \A p \in Planes : state.planes[p].ptr # 0 => PlaneLock(p) \in ctx.held
    /\ \A k \in Connectors :
           state.connectors[k].ptr # 0 => ConnectionLock \in ctx.held

\* C35: until the ioctl returns, the acquire context holds the lock of every
\* CRTC and plane that has a populated entry in the transaction, and the
\* connection lock when a connector entry is populated; every back-off of
\* the ioctl came after a clear of the transaction
C35_SnapshotsLocked ==
    /\ pc # "done" => SnapshotsLocked
    /\ log.nbackoff <= log.nclear

\* after a Deadlock retry the transaction holds a plane and a CRTC snapshot
\* again
C35_Witness ==
    /\ Assembling
    /\ log.nretry > 0
    /\ \E p \in Planes : state.planes[p].ptr # 0
    /\ \E c \in Crtcs : state.crtcs[c].ptr # 0
    /\ SnapshotsLocked

(* ---------------------------------------------------------------------- *)
(* The offset that the GPU temperature adds in the thermal worker.         *)
(* ---------------------------------------------------------------------- *)
\* the offset the thresholds are meant to select
ThresholdOffset(temp_gpu) ==
    IF temp_gpu >= 70000 THEN temp_gpu
    ELSE IF temp_gpu >= 68000 THEN 65000
    ELSE IF temp_gpu >= 65000 THEN 55000
    ELSE IF temp_gpu >= 63000 THEN 35000
    ELSE 0

\* C33: each GPU threshold selects its own offset, which is added to the
\* summed CPU temperature before the division: 35000 from 63000, 55000 from
\* 65000, 65000 from 68000, the GPU temperature itself from 70000, and
\* nothing below 63000
C33_ThresholdSelectsItsOffset ==
    pc = "thermal" /\ dev.ran =>
        dev.temp_avg
            = (dev.temp_total + ThresholdOffset(dev.temp_gpu)) \div NR_CPUS

(* ---------------------------------------------------------------------- *)
(* The max-boost kick                                                      *)
(* ---------------------------------------------------------------------- *)
KickReturned(t) ==
    local.thr[t].call \in {"kick_max", "unblank"} /\ local.thr[t].pc = "ret"

\* a kick that was not skipped has returned: its expiry or a later one is stored
KickStored ==
    \A t \in Threads :
        KickReturned(t) /\ ~local.thr[t].skipped
            => dev.max_boost_expires >= local.thr[t].new

\* the step in which a kick finds its expiry earlier than the stored one
\* returns, and leaves the expiry, the duration and the works alone
KickSkipStep ==
    \A t \in Threads :
        (/\ local.thr[t].pc = "read"
         /\ local'.thr[t] # local.thr[t]
         /\ dev.max_boost_expires > local'.thr[t].new)
            => /\ local'.thr[t].pc = "ret"
               /\ local'.thr[t].skipped
               /\ dev' = dev

\* C31: a kick whose expiry is earlier than the stored max_boost_expires
\* changes neither max_boost_expires nor max_boost_dur and queues no work;
\* max_boost_expires never moves to an earlier time under any interleaving;
\* a kick that is not skipped ends with its expiry, or a later one, stored.
C31_ExpiryOnlyMovesLater ==
    /\ [](pc = "boost" => KickStored)
    /\ [][pc = "boost" =>
              /\ dev'.max_boost_expires >= dev.max_boost_expires
              /\ KickSkipStep]_vars

\* one kick was skipped while another, not skipped, sees a later expiry stored
C31_Witness ==
    /\ pc = "boost"
    /\ \E t, o \in Threads :
           /\ KickReturned(t) /\ local.thr[t].skipped
           /\ KickReturned(o) /\ ~local.thr[o].skipped
           /\ dev.max_boost_expires >= local.thr[o].new

\* C39: once the concurrent kicks have completed, max_boost_dur is the
\* duration of the kick whose expiry is stored in max_boost_expires.
C39_DurationOfStoredExpiry ==
    (pc = "boost" /\ \A t \in Threads : local.thr[t].pc = "ret")
        => dev.max_boost_dur \in log.expiry_durs

\* C32: when the notifier returns from an early blank event that does not
\* unblank, SCREEN_AWAKE, INPUT_BOOST, WAKE_BOOST and MAX_BOOST are clear.
C32_ScreenOffClearsAllBits ==
    [][pc = "boost" =>
          \A t \in Threads :
              (InNotifier(t) /\ local.thr[t].call = "blank"
               /\ local'.thr[t].pc = "ret")
                  => dev'.state = {}]_vars

\* C40: under fair scheduling, once no more calls arrive, every INPUT_BOOST
\* and MAX_BOOST bit that is set is cleared; a boost worker that set its bit
\* or cancelled the pending unboost queues the unboost.
C40_BoostBitsAreCleared ==
    /\ (pc = "boost" /\ "INPUT_BOOST" \in dev.state)
           ~> ("INPUT_BOOST" \notin dev.state)
    /\ (pc = "boost" /\ "MAX_BOOST" \in dev.state)
           ~> ("MAX_BOOST" \notin dev.state)
    /\ (pc = "boost" /\ local.wrk.input_boost \in {"set_bit", "queue", "requeue"})
           ~> ("input_unboost" \in dev.pending)
    /\ (pc = "boost" /\ local.wrk.max_boost \in {"set_bit", "queue", "requeue"})
           ~> ("max_unboost" \in dev.pending)

\* a boost worker has cancelled the pending unboost of a bit that is set
C40_Witness ==
    /\ pc = "boost"
    /\ local.wrk.max_boost = "requeue"
    /\ "MAX_BOOST" \in dev.state
    /\ "max_unboost" \notin dev.pending
====
